---- MODULE Spec2Model ----
(***************************************************************************)
(* The contour repository of svg2gcode (src/src/geo): edges and their      *)
(* predicates, convex polygons, contours, the pairwise merge (break the    *)
(* edges, stitch the loops) and the merge_all loop.                        *)
(*                                                                         *)
(* Coordinates.  The program computes in f32 with the tolerance E = 0.001. *)
(* The model computes exactly, on a grid: a coordinate is an integer       *)
(* number of grid units, 1.0 being Scale units.  One grid unit is Fine     *)
(* tolerances wide, so every comparison against E is made as the program   *)
(* makes it, in integers.  The inputs are chosen so that every point the   *)
(* program computes from them lies on the grid (the variable onGrid        *)
(* records it, and OnGridInv checks it), where the f32 rounding error      *)
(* (about 1e-6) is far below both E and the grid unit.                     *)
(***************************************************************************)
EXTENDS Integers, Sequences, FiniteSets, TLC

\* ------------------------------------------------------------------ grid

\* E = 1 / EInv (src/src/geo/mod.rs:13)
EInv == 1000

\* Grid units per 1.0; a power of two, so that midpoints of grid points of
\* the inputs stay on the grid.
Scale == 2 * 2

\* Tolerances per grid unit.
Fine == EInv \div Scale

Abs(x) == IF x < 0 THEN -x ELSE x

Min(a, b) == IF a < b THEN a ELSE b

\* feq!: (f1 - f2).abs() < E
Feq(a, b) == Abs(a - b) * Fine < 1

\* p2eq!
P2eq(p, q) == Feq(p[1], q[1]) /\ Feq(p[2], q[2])

\* A vector's squared length, in grid units squared.
Mag2(p, q) == (p[1] - q[1]) * (p[1] - q[1]) + (p[2] - q[2]) * (p[2] - q[2])

\* n / sqrt(d2) < E for n >= 0, d2 > 0 (n in grid units squared, d2 a
\* squared length): n * Fine < sqrt(d2).  The first conjunct follows from
\* the second and keeps the square small.
RatioLtE(n, d2) == n * Fine < d2 /\ (n * Fine) * (n * Fine) < d2

\* ------------------------------------------------------------------ Edge

\* An edge is <<start, end>>; Edge::from asserts that it is not 0-length.
EdgeOk(p, q) == ~P2eq(p, q)

Start(e) == e[1]

End(e) == e[2]

\* Edge::left: the direction rotated by +90 degrees.
LeftOf(e) == << -(e[2][2] - e[1][2]), e[2][1] - e[1][1] >>

\* left() . (next - start): the dot product of Edge::turning before the
\* normalisation.
Cross(e, p) ==
    (e[2][1] - e[1][1]) * (p[2] - e[1][2]) - (e[2][2] - e[1][2]) * (p[1] - e[1][1])

\* Edge::turning
Turning(e, p) ==
    LET c == Cross(e, p)
    IN  IF RatioLtE(Abs(c), Mag2(e[1], e[2])) THEN "Collinear"
        ELSE IF c > 0 THEN "Left" ELSE "Right"

\* derive(PartialOrd) on Turning: Left < Collinear < Right.
TurnRank(t) == CASE t = "Left" -> 0 [] t = "Collinear" -> 1 [] t = "Right" -> 2

\* A distance is kept as its square, the fraction n / d of grid units squared.
DZero == [n |-> 0, d |-> 1]

DLt(a, b) == a.n * b.d < b.n * a.d

DMin(a, b) == IF DLt(b, a) THEN b ELSE a

\* distance < E
DLtE(a) == a.n * Fine * Fine < a.d

\* Edge::distance.  The last branch of the program intersects the edge with
\* the perpendicular through p and measures from p to that point, which is
\* |Cross| / length.
Distance(e, p) ==
    LET s == e[1]
        t == e[2]
        p2s == [n |-> Mag2(s, p), d |-> 1]
        p2e == [n |-> Mag2(t, p), d |-> 1]
        l == LeftOf(e)
        turning1 == Turning(<<s, <<s[1] + l[1], s[2] + l[2]>> >>, p)
        turning2 == Turning(<<t, <<t[1] + l[1], t[2] + l[2]>> >>, p)
    IN  IF DLtE(p2s) \/ DLtE(p2e) THEN DZero
        ELSE IF Feq(t[1] - s[1], 0)
        THEN IF (s[2] <= p[2] /\ p[2] <= t[2]) \/ (t[2] <= p[2] /\ p[2] <= s[2])
             THEN [n |-> (s[1] - p[1]) * (s[1] - p[1]), d |-> 1]
             ELSE DMin(p2s, p2e)
        ELSE IF TurnRank(turning1) > TurnRank("Left") /\ TurnRank(turning2) < TurnRank("Right")
        THEN [n |-> Cross(e, p) * Cross(e, p), d |-> Mag2(s, t)]
        ELSE DMin(p2s, p2e)

\* t1..t4 of Edge::crosses and Edge::touches.
Turnings(a, b) == <<Turning(a, b[1]), Turning(a, b[2]), Turning(b, a[1]), Turning(b, a[2])>>

AnyCollinear(t) ==
    t[1] = "Collinear" \/ t[2] = "Collinear" \/ t[3] = "Collinear" \/ t[4] = "Collinear"

AllCollinear(t) ==
    t[1] = "Collinear" /\ t[2] = "Collinear" /\ t[3] = "Collinear" /\ t[4] = "Collinear"

\* Edge::crosses looking at the ends of other only: t3 and t4 forgotten.
CrossesTOneEdge(t) == IF AnyCollinear(t) THEN FALSE ELSE t[1] # t[2]

\* Edge::crosses, given the four turnings.
CrossesT(t) == IF AnyCollinear(t) THEN FALSE ELSE t[1] # t[2] /\ t[3] # t[4]

\* Edge::touches looking for a collinear point on one side only: the ends
\* of the other edge against this one, not the ends of this one against the
\* other.
TouchesTOneSided(t, a, b) ==
    IF AllCollinear(t)
    THEN DLtE(Distance(a, b[1])) \/ DLtE(Distance(a, b[2]))
    ELSE (t[1] = "Collinear" \/ t[2] = "Collinear") /\ t[1] # t[2] /\ t[3] # t[4]

\* Edge::touches, given the four turnings.
TouchesT(t, a, b) ==
    IF AllCollinear(t)
    THEN DLtE(Distance(a, b[1])) \/ DLtE(Distance(a, b[2]))
    ELSE AnyCollinear(t) /\ t[1] # t[2] /\ t[3] # t[4]

Crosses(a, b) == CrossesT(Turnings(a, b))

Touches(a, b) == TouchesT(Turnings(a, b), a, b)

MeetsT(t, a, b) == CrossesT(t) \/ TouchesT(t, a, b)

\* a.crosses(b) || a.touches(b).  The two never hold together (one needs a
\* collinear turning, the other none), so the assertion of break_edges on
\* them never fails.
Meets(a, b) == MeetsT(Turnings(a, b), a, b)

\* A computed coordinate is a fraction <<num, den>> of grid units, and a
\* computed point a pair of them; the point of a failed assertion is
\* Panic, the only one with a denominator 0.
Panic == << <<0, 0>>, <<0, 0>> >>

\* The end of e that is closer to other; the far end when they tie.
Closest(e, other) ==
    IF DLt(Distance(other, e[1]), Distance(other, e[2])) THEN e[1] ELSE e[2]

\* na::center
Center(p, q) == << <<p[1] + q[1], 2>>, <<p[2] + q[2], 2>> >>

\* The closure closest_center of Edge::find_intersection.
ClosestCenter(a, b) == Center(Closest(a, b), Closest(b, a))

\* The branch Edge::find_intersection takes.
IntersectionCase(a, b) ==
    LET sdx == a[2][1] - a[1][1]
        sdy == a[2][2] - a[1][2]
        odx == b[2][1] - b[1][1]
        ody == b[2][2] - b[1][2]
    IN  IF Feq(sdy, 0) /\ Feq(ody, 0) THEN "horizontal"
        ELSE IF Feq(sdx, 0) /\ Feq(odx, 0) THEN "vertical"
        ELSE IF Feq(sdx, 0) THEN "self_vertical"
        ELSE IF Feq(odx, 0) THEN "other_vertical"
        \* feq!(self_m, other_m), the slopes being sdy / sdx and ody / odx
        ELSE IF Abs(sdy * odx - ody * sdx) * EInv < Abs(sdx * odx) THEN "parallel"
        ELSE "general"

\* The assertion of the branch k of Edge::find_intersection holds.
IntersectionAsserts(a, b, k) ==
    LET sdx == a[2][1] - a[1][1]
        sdy == a[2][2] - a[1][2]
        odx == b[2][1] - b[1][1]
        ody == b[2][2] - b[1][2]
    IN  CASE k = "horizontal" -> Feq(a[1][2], b[1][2])
          [] k = "vertical" -> Feq(a[1][1], b[1][1])
          \* the values at x = 0, over the common denominator sdx * odx
          [] k = "parallel" ->
               Abs((a[1][2] * sdx - sdy * a[1][1]) * odx - (b[1][2] * odx - ody * b[1][1]) * sdx)
                   * Fine < Abs(sdx * odx)
          [] OTHER -> TRUE

\* The point of the branch k of Edge::find_intersection, c being the value
\* of closest_center.
IntersectionAt(a, b, k, c) ==
    LET sdx == a[2][1] - a[1][1]
        sdy == a[2][2] - a[1][2]
        odx == b[2][1] - b[1][1]
        ody == b[2][2] - b[1][2]
        \* x of the general case, over the common denominator sdx * odx
        xn == a[1][1] * sdy * odx - b[1][1] * ody * sdx + (b[1][2] - a[1][2]) * sdx * odx
        xd == sdy * odx - ody * sdx
    IN  CASE k \in {"horizontal", "vertical", "parallel"} -> c
          [] k = "self_vertical" ->
               << <<a[1][1], 1>>, <<(a[1][1] - b[1][1]) * ody + b[1][2] * odx, odx>> >>
          [] k = "other_vertical" ->
               << <<b[1][1], 1>>, <<(b[1][1] - a[1][1]) * sdy + a[1][2] * sdx, sdx>> >>
          [] k = "general" ->
               << <<xn, xd>>, <<sdy * (xn - a[1][1] * xd) + a[1][2] * sdx * xd, sdx * xd>> >>

IntersectionIn(a, b, k) ==
    IF IntersectionAsserts(a, b, k) THEN IntersectionAt(a, b, k, ClosestCenter(a, b))
    ELSE Panic

\* Edge::find_intersection
FindIntersection(a, b) == IntersectionIn(a, b, IntersectionCase(a, b))

\* The quotient n / d of a fraction <<n, d>>, d # 0.
Quot(f) == IF f[2] < 0 THEN (-f[1]) \div (-f[2]) ELSE f[1] \div f[2]

Whole(f) == f[2] # 0 /\ f[1] % Abs(f[2]) = 0

\* A computed point as a point of the grid.
PointOf(q) == << Quot(q[1]), Quot(q[2]) >>

Points(qs) == [k \in 1..Len(qs) |-> PointOf(qs[k])]

\* Every point of qs lies on the grid: the quotients are whole.
OnGrid(qs) == \A k \in 1..Len(qs) : Whole(qs[k][1]) /\ Whole(qs[k][2])

Panicked(qs) == \E k \in 1..Len(qs) : qs[k] = Panic

\* ----------------------------------------------------------------- Shape

\* Sequence helpers.
Last(s) == s[Len(s)]

Front(s) == SubSeq(s, 1, Len(s) - 1)

Reverse(s) == [i \in 1..Len(s) |-> s[Len(s) + 1 - i]]

RemoveAt(s, i) == SubSeq(s, 1, i - 1) \o SubSeq(s, i + 1, Len(s))

\* get_boundary_edges and Contour::edges: the edges of a closed loop of points.
BoundaryEdges(b) == [i \in 1..Len(b) |-> <<b[i], b[(i % Len(b)) + 1]>>]

\* get_boundary_edge_pairs: each edge with the one after it.
BoundaryEdgePairs(b) ==
    [i \in 1..Len(b) |-> <<BoundaryEdges(b)[i], BoundaryEdges(b)[(i % Len(b)) + 1]>>]

\* The turning of one pair of ConvexPolygon::new.
PairTurning(pair) == Turning(pair[1], End(pair[2]))

TurnedLeft(b) == \E i \in 1..Len(b) : PairTurning(BoundaryEdgePairs(b)[i]) = "Left"

TurnedRight(b) == \E i \in 1..Len(b) : PairTurning(BoundaryEdgePairs(b)[i]) = "Right"

\* ConvexPolygon::new: the stored boundary, or "Err".
ConvexPolygonNew(points) ==
    IF Len(points) < 3 THEN "Err"
    ELSE IF TurnedRight(points) /\ ~TurnedLeft(points) THEN Reverse(points)
    ELSE IF TurnedRight(points) THEN "Err"
    ELSE points

\* ShapeContains with a strict test: a point on the boundary is not
\* contained (the slip of writing == Left for != Right).
ShapeContainsStrict(shape, p) ==
    \A i \in 1..Len(shape) : Turning(BoundaryEdges(shape)[i], p) = "Left"

\* <ConvexPolygon as Shape>::contains; a shape is the polygon's boundary.
ShapeContains(shape, p) ==
    \A i \in 1..Len(shape) : Turning(BoundaryEdges(shape)[i], p) # "Right"

\* --------------------------------------------------------------- Contour

\* Contour::new
ContourNew(shape) == [boundary |-> shape, area |-> <<shape>>]

\* Contour::edges
Edges(c) == BoundaryEdges(c.boundary)

\* Contour::contains
Contains(c, p) == \E k \in 1..Len(c.area) : ShapeContains(c.area[k], p)

\* Contour::is_superset_of
IsSupersetOf(c, other) ==
    \A k \in 1..Len(other.boundary) : Contains(c, other.boundary[k])

\* Contour::is_mergeable
IsMergeable(c, other) ==
    \E i \in 1..Len(c.boundary) : \E j \in 1..Len(other.boundary) :
        Meets(Edges(c)[i], Edges(other)[j])

\* The filter_map of Contour::break_edges: the intersections of tseg with the
\* edges of the other contour from the j-th on, in the order of those edges.
RECURSIVE Intersections(_, _, _)
Intersections(tseg, oedges, j) ==
    IF j > Len(oedges) THEN <<>>
    ELSE (IF Meets(tseg, oedges[j])
          THEN <<FindIntersection(tseg, oedges[j])>>
          ELSE <<>>) \o Intersections(tseg, oedges, j + 1)

\* The intersections of all edges of c from the i-th on, edge after edge.
RECURSIVE Cuts(_, _, _)
Cuts(c, other, i) ==
    IF i > Len(c.boundary) THEN <<>>
    ELSE <<Intersections(Edges(c)[i], Edges(other), 1)>> \o Cuts(c, other, i + 1)

\* An assertion fails while the edges of c are broken against other.
BreakPanics(cuts) == \E i \in 1..Len(cuts) : Panicked(cuts[i])

\* Every point computed while the edges of c are broken lies on the grid.
BreakOnGrid(cuts) == \A i \in 1..Len(cuts) : OnGrid(cuts[i])

\* Insert p behind every point that is not farther from start: with it,
\* SortInts is the stable sort_by of Contour::break_edges.
RECURSIVE InsertInt(_, _, _)
InsertInt(start, sorted, p) ==
    IF sorted = <<>> THEN <<p>>
    ELSE IF Mag2(start, p) < Mag2(start, Head(sorted))
    THEN <<p>> \o sorted
    ELSE <<Head(sorted)>> \o InsertInt(start, Tail(sorted), p)

RECURSIVE SortInts(_, _)
SortInts(start, ints) ==
    IF ints = <<>> THEN <<>>
    ELSE InsertInt(start, SortInts(start, Front(ints)), Last(ints))

\* SubEdges without the skip of the sub-edges inside the other contour.
RECURSIVE SubEdgesKeepAll(_, _, _)
SubEdgesKeepAll(prev, ends, other) ==
    IF ends = <<>> THEN <<>>
    ELSE IF P2eq(prev, Head(ends)) THEN SubEdgesKeepAll(prev, Tail(ends), other)
    ELSE << <<prev, Head(ends)>> >> \o SubEdgesKeepAll(Head(ends), Tail(ends), other)

\* The inner loop of Contour::break_edges: cut one edge at the sorted
\* points and keep the sub-edges that do not have both ends in the other.
RECURSIVE SubEdges(_, _, _)
SubEdges(prev, ends, other) ==
    IF ends = <<>> THEN <<>>
    ELSE IF P2eq(prev, Head(ends)) THEN SubEdges(prev, Tail(ends), other)
    ELSE IF Contains(other, prev) /\ Contains(other, Head(ends))
    THEN SubEdges(Head(ends), Tail(ends), other)
    ELSE << <<prev, Head(ends)>> >> \o SubEdges(Head(ends), Tail(ends), other)

\* The outer loop of Contour::break_edges from the i-th edge of c on.
RECURSIVE BreakFrom(_, _, _, _)
BreakFrom(c, other, cuts, i) ==
    IF i > Len(c.boundary) THEN <<>>
    ELSE SubEdges(c.boundary[i],
                  Append(SortInts(c.boundary[i], Points(cuts[i])), End(Edges(c)[i])),
                  other)
            \o BreakFrom(c, other, cuts, i + 1)

\* Contour::break_edges
BreakEdges(c, other) == BreakFrom(c, other, Cuts(c, other, 1), 1)

\* -------------------------------------------------------------- Contours

\* BelongsTo::other
Other(cont) == IF cont = "A" THEN "B" ELSE "A"

Tagged(edges, cont) == [k \in 1..Len(edges) |-> <<edges[k], cont>>]

Untagged(edges) == [k \in 1..Len(edges) |-> edges[k][1]]

\* The least element of a set of positive numbers, 0 if it has none.
FirstOf(S) == IF S = {} THEN 0 ELSE CHOOSE i \in S : \A k \in S : i <= k

\* Its greatest element, 0 if it has none.
LastOf(S) == IF S = {} THEN 0 ELSE CHOOSE i \in S : \A k \in S : k <= i

\* The closure find_next of Contours::merge: the index of the first pooled
\* edge of contour cont that starts at start, or 0.
FindNext(edges, start, cont) ==
    FirstOf({i \in 1..Len(edges) : edges[i][2] = cont /\ P2eq(start, Start(edges[i][1]))})

\* Option::or_else
OrElse(first, second) == IF first # 0 THEN first ELSE second

\* matching of Contours::merge
Matching(edges, start, prev_cont) ==
    OrElse(FindNext(edges, start, Other(prev_cont)), FindNext(edges, start, prev_cont))

\* The inner loop of Contours::merge: extend the chain edges_acc until it
\* returns to its start (closed) or no pooled edge continues it.
RECURSIVE StitchLoop(_, _, _, _)
\* Extend leaving the edge it takes in the pool (edges[next_i].clone() for
\* edges.remove(next_i)).
ExtendKeep(edges, edges_acc, next_i) ==
    IF next_i # 0
    THEN StitchLoop(edges, Append(edges_acc, edges[next_i][1]),
                    edges[next_i][1], edges[next_i][2])
    ELSE [closed |-> FALSE, acc |-> edges_acc, edges |-> edges]

Extend(edges, edges_acc, next_i) ==
    IF next_i # 0
    THEN StitchLoop(RemoveAt(edges, next_i), Append(edges_acc, edges[next_i][1]),
                    edges[next_i][1], edges[next_i][2])
    ELSE [closed |-> FALSE, acc |-> edges_acc, edges |-> edges]

StitchLoop(edges, edges_acc, prev_edge, prev_cont) ==
    IF P2eq(End(prev_edge), Start(edges_acc[1]))
    THEN [closed |-> TRUE, acc |-> edges_acc, edges |-> edges]
    ELSE Extend(edges, edges_acc, Matching(edges, End(prev_edge), prev_cont))

\* The contour Contours::merge pushes for a closed chain.
LoopContour(acc, area) ==
    [boundary |-> [k \in 1..Len(acc) |-> Start(acc[k])], area |-> area]

\* The loop "Find loops" of Contours::merge on the repository <<cs, ps>>,
\* r being the chain stitched from the last pooled edge.
\* Looped recording only the partial chain of a failed stitch, not the
\* edges left in the pool.
RECURSIVE FindLoops(_, _, _, _)
LoopedChainOnly(r, area, cs, ps) ==
    IF r.closed
    THEN FindLoops(r.edges, area, Append(cs, LoopContour(r.acc, area)), ps)
    ELSE [contours |-> cs, problems |-> ps \o r.acc, failed |-> TRUE]

Looped(r, area, cs, ps) ==
    IF r.closed
    THEN FindLoops(r.edges, area, Append(cs, LoopContour(r.acc, area)), ps)
    ELSE [contours |-> cs, problems |-> ps \o r.acc \o Untagged(r.edges), failed |-> TRUE]

FindLoops(edges, area, cs, ps) ==
    IF edges = <<>> THEN [contours |-> cs, problems |-> ps, failed |-> FALSE]
    ELSE Looped(StitchLoop(Front(edges), <<Last(edges)[1]>>, Last(edges)[1], Last(edges)[2]),
                area, cs, ps)

\* The pool of Contours::merge: the broken edges of a, then those of b.
PoolOf(a, b, ca, cb) ==
    Tagged(BreakFrom(a, b, ca, 1), "A") \o Tagged(BreakFrom(b, a, cb, 1), "B")

Pool(a, b) == PoolOf(a, b, Cuts(a, b, 1), Cuts(b, a, 1))

\* MergeWith giving the new contours the constituents of a only.
MergeWithAreaOfA(cs, ps, a, b, ca, cb) ==
    IF BreakPanics(ca) \/ BreakPanics(cb)
    THEN [contours |-> cs, problems |-> ps, failed |-> FALSE, panicked |-> TRUE,
          onGrid |-> TRUE]
    ELSE FindLoops(PoolOf(a, b, ca, cb), a.area, cs, ps)
            @@ [panicked |-> FALSE, onGrid |-> BreakOnGrid(ca) /\ BreakOnGrid(cb)]

\* Contours::merge on the repository <<cs, ps>>, ca and cb being the
\* intersections of the edges of a and of b.
MergeWith(cs, ps, a, b, ca, cb) ==
    IF BreakPanics(ca) \/ BreakPanics(cb)
    THEN [contours |-> cs, problems |-> ps, failed |-> FALSE, panicked |-> TRUE,
          onGrid |-> TRUE]
    ELSE FindLoops(PoolOf(a, b, ca, cb), a.area \o b.area, cs, ps)
            @@ [panicked |-> FALSE, onGrid |-> BreakOnGrid(ca) /\ BreakOnGrid(cb)]

\* Contours::merge
Merge(cs, ps, a, b) == MergeWith(cs, ps, a, b, Cuts(a, b, 1), Cuts(b, a, 1))

\* FirstMergeable with the break outside the if: only j = i + 1 is tried.
FirstMergeableOnlyNext(cs, i) ==
    FirstOf({j \in (i + 1)..Min(i + 1, Len(cs)) : IsMergeable(cs[i], cs[j])})

\* The first j > i with contours[i].is_mergeable(contours[j]), or 0: the
\* inner for loop of Contours::merge_all, which breaks at the first hit.
FirstMergeable(cs, i) == FirstOf({j \in (i + 1)..Len(cs) : IsMergeable(cs[i], cs[j])})

\* to_merge after the i-th pass of the outer for loop was the last to set it.
PairAt(cs, i) == IF i = 0 THEN <<0, 0>> ELSE <<i, FirstMergeable(cs, i)>>

\* to_merge after the two for loops of Contours::merge_all, <<0, 0>> for
\* None.  The break leaves the inner loop only, so a later i overwrites the
\* pair of an earlier one.
ToMerge(cs) == PairAt(cs, LastOf({i \in 1..Len(cs) : FirstMergeable(cs, i) # 0}))

\* Removed without the two calls of remove.
RemovedNothing(cs, i, j) == cs

\* self.contours after remove(j) and remove(i), j > i.
Removed(cs, i, j) == RemoveAt(RemoveAt(cs, j), i)

\* Merged with break for continue: the loop ends after the first merge.
MergedThenBreak(m, tm, rest) ==
    [contours |-> m.contours, problems |-> m.problems, again |-> FALSE,
     panicked |-> m.panicked, i |-> tm[1], j |-> tm[2],
     loops |-> Len(m.contours) - Len(rest), failed |-> m.failed, onGrid |-> m.onGrid]

\* What a pass that merged the pair tm leaves, m being the result of the merge.
Merged(m, tm, rest) ==
    [contours |-> m.contours, problems |-> m.problems, again |-> ~m.panicked,
     panicked |-> m.panicked, i |-> tm[1], j |-> tm[2],
     loops |-> Len(m.contours) - Len(rest), failed |-> m.failed, onGrid |-> m.onGrid]

\* The pass of the loop of Contours::merge_all whose scan ended with tm.
RoundOf(cs, ps, tm) ==
    IF tm = <<0, 0>>
    THEN [contours |-> cs, problems |-> ps, again |-> FALSE, panicked |-> FALSE,
          i |-> 0, j |-> 0, loops |-> 0, failed |-> FALSE, onGrid |-> TRUE]
    ELSE Merged(Merge(Removed(cs, tm[1], tm[2]), ps, cs[tm[1]], cs[tm[2]]),
                tm, Removed(cs, tm[1], tm[2]))

\* One pass of the loop of Contours::merge_all.  again: the pass ended in
\* continue; panicked: an assertion failed in it; loops: the contours the
\* merge pushed; failed: the merge returned from its error branch.
Round(cs, ps) == RoundOf(cs, ps, ToMerge(cs))

\* ---------------------------------------------------------------- inputs

\* The corners of the input rectangles lie on 0..MaxX x 0..MaxY (in units
\* of 1.0).
MaxX == 3

MaxY == 4

\* merge_all is called at most this many times.
MaxCalls == 2

\* The model follows at most this many merging passes of one call.
MaxRounds == 3

Pt(x, y) == <<x * Scale, y * Scale>>

\* A point given in halves of 1.0.
Half(x, y) == <<x * (Scale \div 2), y * (Scale \div 2)>>

\* The rectangle [x0, x1] x [y0, y1], listed from its lower left corner
\* clockwise (as most tests list theirs) or counter-clockwise.
RectPoints(x0, y0, x1, y1, cw) ==
    IF cw THEN <<Pt(x0, y0), Pt(x0, y1), Pt(x1, y1), Pt(x1, y0)>>
    ELSE <<Pt(x0, y0), Pt(x1, y0), Pt(x1, y1), Pt(x0, y1)>>

XRanges == {r \in (0..MaxX) \X (0..MaxX) : r[1] < r[2]}

YRanges == {r \in (0..MaxY) \X (0..MaxY) : r[1] < r[2]}

\* Every rectangle of the grid.
Rects(cw) == {RectPoints(xr[1], yr[1], xr[2], yr[2], cw) : xr \in XRanges, yr \in YRanges}

\* The rectangles of sides 1 and 2 whose lower left corner is (1, 1).
Anchored(cw) == {RectPoints(1, 1, 1 + dx, 1 + dy, cw) : dx \in 1..2, dy \in 1..2}

\* The cont! macro of the tests: a contour of the convex polygon of points.
Cont(points) == ContourNew(ConvexPolygonNew(points))

\* Two rectangles, one of them anchored, listed the same way round, in
\* either order.
PairInputs ==
    UNION {{<<Cont(p), Cont(q)>>, <<Cont(q), Cont(p)>>} :
              p \in Anchored(TRUE), q \in Rects(TRUE)}
    \cup
    UNION {{<<Cont(p), Cont(q)>>, <<Cont(q), Cont(p)>>} :
              p \in Anchored(FALSE), q \in Rects(FALSE)}

\* The diamonds of tests::merging_diagonal.
DiamondPoints(x) == <<Pt(x, 1), Pt(x + 2, 2), Pt(x + 4, 1), Pt(x + 2, 0)>>

DiamondInputs ==
    {<<Cont(DiamondPoints(0)), Cont(DiamondPoints(1))>>,
     <<Cont(DiamondPoints(1)), Cont(DiamondPoints(0))>>}

\* Every order of the contours of cs.
Orders(cs) == {[k \in 1..Len(cs) |-> cs[p[k]]] : p \in Permutations(1..Len(cs))}

\* Two crossing bars and a kite over their upper right corner: the three
\* enclose a triangle that none of them covers.
KitePoints == <<Half(5, 5), Half(7, 3), Half(7, 7), Half(3, 7)>>

KiteInputs ==
    Orders(<<Cont(KitePoints), Cont(RectPoints(0, 1, 4, 2, FALSE)),
             Cont(RectPoints(1, 0, 2, 4, FALSE))>>)

\* Three squares in a row of overlaps, and three that share one corner.
ChainInputs ==
    Orders(<<Cont(RectPoints(0, 0, 2, 2, TRUE)), Cont(RectPoints(1, 1, 3, 3, TRUE)),
             Cont(RectPoints(2, 2, 4, 4, TRUE))>>)
    \cup
    Orders(<<Cont(RectPoints(0, 0, 1, 1, FALSE)), Cont(RectPoints(1, 0, 2, 1, FALSE)),
             Cont(RectPoints(3, 3, 4, 4, FALSE))>>)

\* The four unit squares of [0,2] x [0,2], listed clockwise.
Tiles == {Cont(RectPoints(x, y, x + 1, y + 1, TRUE)) : x \in 0..1, y \in 0..1}

\* Three or four of them, in every order.
TileInputs ==
    {t \in Tiles \X Tiles \X Tiles : Cardinality({t[1], t[2], t[3]}) = 3}
    \cup
    {t \in Tiles \X Tiles \X Tiles \X Tiles : Cardinality({t[1], t[2], t[3], t[4]}) = 4}

\* A point given in quarters of 1.0.
Quarter(x, y) == <<x * (Scale \div 4), y * (Scale \div 4)>>

\* The bars and the kite in the order in which the stitching of the second
\* merge fails, with a small rectangle across the lower edge of the
\* horizontal bar, listed first or last.
StubPoints == <<Quarter(1, 2), Quarter(3, 2), Quarter(3, 6), Quarter(1, 6)>>

StubInputs ==
    {<<Cont(StubPoints), Cont(RectPoints(0, 1, 4, 2, FALSE)), Cont(KitePoints),
       Cont(RectPoints(1, 0, 2, 4, FALSE))>>,
     <<Cont(RectPoints(0, 1, 4, 2, FALSE)), Cont(KitePoints),
       Cont(RectPoints(1, 0, 2, 4, FALSE)), Cont(StubPoints)>>}

Inputs ==
    PairInputs \cup DiamondInputs \cup KiteInputs \cup ChainInputs \cup TileInputs
        \cup StubInputs

\* ------------------------------------------------------------ repository

VARIABLES
    input,      \* the contours given to Contours::from
    contours,   \* Contours.contours
    problems,   \* Contours.problems
    pc,         \* "idle": no call is running; "loop": in merge_all;
                \* "panicked": an assertion failed; "cut": not followed further
    calls,      \* calls of merge_all that have returned
    rounds,     \* merging passes of the running call
    last,       \* what the last pass did
    onGrid      \* every point computed so far lies on the grid

vars == <<input, contours, problems, pc, calls, rounds, last, onGrid>>

\* The G-code generator (src/src/io/gcode_generator.rs), specified below
\* under GSpec; the repository leaves it alone.
VARIABLES
    state,        \* GCodeGenerator.state
    actions,      \* GCodeGenerator.actions, a line being [w |-> word, a |-> arguments]
    safe_height,  \* GCodeGenerator.safe_height
    gpc,          \* "ready"; "panicked": an assertion failed; "finished":
                  \* into_string has consumed the generator
    ops,          \* calls that have returned
    gop           \* the last method called, and the state it was called in

gvars == <<state, actions, safe_height, gpc, ops, gop>>

\* The shapes and the functions of an edge (src/src/geo/shape.rs, edge.rs),
\* specified below under SSpec; the repository and the generator leave
\* them alone.
VARIABLES
    shape,   \* the shape the last constructor made, as grow has left it
    scall,   \* the last call: its name f and its arguments
    sret     \* what it returned: "Ok", "Err", "Panic", or a Turning

svars == <<shape, scall, sret>>

\* The drivers of the generator (src/src/io/gcode.rs), specified below
\* under DSpec; the repository, the generator's own specification and the
\* shapes leave them alone.
VARIABLES
    driver   \* the running make_gcode_* function: its data, its position
             \* and what it has done

dvars == <<driver>>

\* No driver is running.
NoDriver == [f |-> "none"]

\* No shape: the fields of Line, ConvexPolygon and Circle, all empty.
NoShape ==
    [kind |-> "None", points |-> <<>>, boundary |-> <<>>, center |-> <<>>,
     thickness |-> 0, radius |-> 0, resolution |-> 0]

\* Nothing has been constructed or called.
NoCall == shape = NoShape /\ scall = [f |-> "none"] /\ sret = "none"

\* A line of G-code: format!("W A1{v1} A2{v2} ...").
GLine0(w) == [w |-> w, a |-> <<>>]

GLine1(w, k, v) == [w |-> w, a |-> << <<k, v>> >>]

\* GCodeGenerator::new
GCodeGeneratorNew(feed, rpm, height) ==
    /\ safe_height = height
    /\ state = "Stopped"
    /\ actions = <<GLine0("G90"), [w |-> "F", a |-> << <<"", feed>> >>],
                   [w |-> "S", a |-> << <<"", rpm>> >>], GLine1("G0", "Z", height)>>
    /\ gpc = "ready"
    /\ ops = 0
    /\ gop = [name |-> "new", in |-> "Stopped"]

NoPass == [merged |-> FALSE, i |-> 0, j |-> 0, before |-> 0, loops |-> 0, failed |-> FALSE]

\* Contours::from: the contours as given, no problems.
InitWith(cs) ==
    /\ input = cs
    /\ contours = cs
    /\ problems = <<>>
    /\ pc = "idle"
    /\ calls = 0
    /\ rounds = 0
    /\ last = NoPass
    /\ onGrid = TRUE

Init == (\E cs \in Inputs : InitWith(cs)) /\ GCodeGeneratorNew(1, 1, 1) /\ NoCall /\ driver = NoDriver

\* merge_all is called.
Call ==
    /\ pc = "idle"
    /\ calls < MaxCalls
    /\ pc' = "loop"
    /\ rounds' = 0
    /\ last' = NoPass
    /\ UNCHANGED <<input, contours, problems, calls, onGrid>>
    /\ UNCHANGED <<gvars, svars, dvars>>

\* One pass of the loop of merge_all: the scan for a pair, then either the
\* merge of the pair and continue, or break and the return.
Pass ==
    /\ pc = "loop"
    /\ \E r \in {Round(contours, problems)} :
           /\ contours' = r.contours
           /\ problems' = r.problems
           /\ pc' = IF r.panicked THEN "panicked"
                    ELSE IF ~r.again THEN "idle"
                    ELSE IF rounds < MaxRounds THEN "loop" ELSE "cut"
           /\ calls' = IF r.panicked \/ r.again THEN calls ELSE calls + 1
           /\ rounds' = IF r.panicked \/ r.again THEN rounds + 1 ELSE rounds
           /\ last' = [merged |-> r.panicked \/ r.again, i |-> r.i, j |-> r.j,
                       before |-> Len(contours), loops |-> r.loops, failed |-> r.failed]
           /\ onGrid' = (onGrid /\ r.onGrid)
    /\ UNCHANGED input
    /\ UNCHANGED <<gvars, svars, dvars>>

Next == Call \/ Pass

Spec == Init /\ [][Next]_<<vars, gvars, svars, dvars>>

\* The model's arithmetic is the program's: every computed point is on the grid.
OnGridInv == onGrid

\* The assertion of Edge::from holds for every edge Contour::edges makes.
EdgesOkInv ==
    \A k \in 1..Len(contours) : \A i \in 1..Len(contours[k].boundary) :
        EdgeOk(Edges(contours[k])[i][1], Edges(contours[k])[i][2])

\* ---------------------------------------------------------------- claims

\* merge_all has returned at least once and no call is running.
Returned == pc = "idle" /\ calls >= 1

\* The two input contours, in either order.
InputPairs == IF Len(input) = 2 THEN {<<input[1], input[2]>>, <<input[2], input[1]>>} ELSE {}

\* Twice the signed area of a closed loop of points, from its k-th edge on.
RECURSIVE Shoelace(_, _)
Shoelace(b, k) ==
    IF k > Len(b) THEN 0
    ELSE b[k][1] * b[(k % Len(b)) + 1][2] - b[(k % Len(b)) + 1][1] * b[k][2]
            + Shoelace(b, k + 1)

\* The pairs of edges of a and b that satisfy Edge::crosses.
CrossingPairs(a, b) ==
    {ij \in (1..Len(a.boundary)) \X (1..Len(b.boundary)) :
        Crosses(Edges(a)[ij[1]], Edges(b)[ij[2]])}

\* Some edge of a touches some edge of b.
AnyTouch(a, b) ==
    \E i \in 1..Len(a.boundary) : \E j \in 1..Len(b.boundary) :
        Touches(Edges(a)[i], Edges(b)[j])

\* The vertices of a that b does not contain.
OutsideVertices(a, b) == {k \in 1..Len(a.boundary) : ~Contains(b, a.boundary[k])}

\* The vertices a and b have in common.
SharedVertices(a, b) ==
    {ij \in (1..Len(a.boundary)) \X (1..Len(b.boundary)) : a.boundary[ij[1]] = b.boundary[ij[2]]}

\* c is an axis-aligned rectangle.
IsRect(c) ==
    /\ Len(c.boundary) = 4
    /\ \A k \in 1..4 : Edges(c)[k][1][1] = Edges(c)[k][2][1] \/ Edges(c)[k][1][2] = Edges(c)[k][2][2]

\* The rectangle a contains the rectangle b strictly: the coordinates of b
\* lie strictly between the least and the greatest of a.
StrictlyInside(a, b) ==
    /\ IsRect(a)
    /\ IsRect(b)
    /\ \A k \in 1..4 : \E m, n \in 1..4 :
          /\ a.boundary[m][1] < b.boundary[k][1] /\ b.boundary[k][1] < a.boundary[n][1]
          /\ a.boundary[m][2] < b.boundary[k][2] /\ b.boundary[k][2] < a.boundary[n][2]

\* The rectangles a and b have one complete edge in common (from opposite
\* sides, both being counter-clockwise).
CommonEdge(a, b) ==
    /\ IsRect(a)
    /\ IsRect(b)
    /\ \E i, j \in 1..4 : Edges(a)[i] = <<Edges(b)[j][2], Edges(b)[j][1]>>

\* p lies strictly between the ends of the axis-aligned edge e.
StrictlyWithin(e, p) ==
    \/ e[1][1] = e[2][1] /\ p[1] = e[1][1]
          /\ Min(e[1][2], e[2][2]) < p[2] /\ p[2] < e[1][2] + e[2][2] - Min(e[1][2], e[2][2])
    \/ e[1][2] = e[2][2] /\ p[2] = e[1][2]
          /\ Min(e[1][1], e[2][1]) < p[1] /\ p[1] < e[1][1] + e[2][1] - Min(e[1][1], e[2][1])

\* The rectangles a and b lie side by side, one complete edge of b strictly
\* inside an edge of a.
EdgeInsideEdge(a, b) ==
    /\ IsRect(a)
    /\ IsRect(b)
    /\ \E i, j \in 1..4 :
          /\ StrictlyWithin(Edges(a)[i], Edges(b)[j][1])
          /\ StrictlyWithin(Edges(a)[i], Edges(b)[j][2])
          \* b's edge runs against a's: the interiors are on opposite sides
          /\ (Edges(a)[i][2][1] - Edges(a)[i][1][1]) * (Edges(b)[j][2][1] - Edges(b)[j][1][1])
               + (Edges(a)[i][2][2] - Edges(a)[i][1][2]) * (Edges(b)[j][2][2] - Edges(b)[j][1][2]) < 0

\* c is an axis-aligned square.
IsSquare(c) ==
    IsRect(c) /\ \A k \in 1..4 : Mag2(Edges(c)[k][1], Edges(c)[k][2]) = Mag2(c.boundary[1], c.boundary[2])

\* The squares a and b meet in one common corner and nowhere else.
CornerTouch(a, b) ==
    /\ IsSquare(a)
    /\ IsSquare(b)
    /\ Cardinality(SharedVertices(a, b)) = 1
    /\ Cardinality(OutsideVertices(a, b)) = 3
    /\ Cardinality(OutsideVertices(b, a)) = 3

\* C1: when merge_all has returned, no contour of the repository is
\* mergeable with a later one: no edge of contours[i] crosses or touches an
\* edge of contours[j], for all i < j.
C1_NoMergeablePair ==
    Returned =>
        \A i \in 1..Len(contours) : \A j \in (i + 1)..Len(contours) :
            ~IsMergeable(contours[i], contours[j])

\* C1 witness: merge_all has returned after merging, from three contours,
\* and left at least two.
C1_Witness == Returned /\ Len(input) = 3 /\ contours # input /\ Len(contours) >= 2

\* C2: if a strictly contains b, neither is mergeable with the other, a is a
\* superset of b and b is not one of a, and once merge_all has returned b
\* is gone and a is the only contour, as it was given.
C2_SupersetAbsorbed ==
    Returned =>
        \A ab \in InputPairs :
            StrictlyInside(ab[1], ab[2]) =>
                /\ ~IsMergeable(ab[1], ab[2])
                /\ ~IsMergeable(ab[2], ab[1])
                /\ IsSupersetOf(ab[1], ab[2])
                /\ ~IsSupersetOf(ab[2], ab[1])
                /\ contours = <<ab[1]>>

\* C3: every call of merge_all returns.  A pass is always possible while a
\* call is in its loop, and each pass either returns or merges, so a call
\* returns unless it panics or merges without end: no call panics, and none
\* makes more merging passes than the model follows.
C3_Terminates == pc \in {"idle", "loop"} /\ rounds <= MaxRounds

\* C3 witness: a call has returned after two merging passes or more, one of
\* which failed to stitch.
C3_Witness == Returned /\ rounds >= 2 /\ problems # <<>>

\* C4: once merge_all has returned, no step of a later call merges, and
\* none changes the contours or the problems.
C4_FixedPoint ==
    [][calls >= 1 => contours' = contours /\ problems' = problems /\ ~last'.merged]_vars

\* C4 witness: merge_all has returned a second time, on a repository that
\* the first call had changed.
C4_Witness == pc = "idle" /\ calls >= 2 /\ contours # input

\* A pass of merge_all has acted on the repository.
Acted == calls + rounds >= 1

C6_CommonEdge ==
    Acted =>
        \A ab \in InputPairs :
            CommonEdge(ab[1], ab[2]) =>
                /\ Len(contours) = 1
                /\ Len(contours[1].boundary) = 6
                /\ problems = <<>>

\* C6 witness: the unit squares [0,1]x[1,2] and [1,2]x[1,2], listed
\* clockwise, have been merged into one contour of 6 vertices.
C6_Witness ==
    /\ Returned
    /\ input = <<Cont(RectPoints(0, 1, 1, 2, TRUE)), Cont(RectPoints(1, 1, 2, 2, TRUE))>>
    /\ CommonEdge(input[1], input[2])
    /\ Len(contours) = 1
    /\ Len(contours[1].boundary) = 6

\* C7: two squares that meet in one corner only have no crossing edges, and
\* merge_all leaves one contour of 8 vertices and no problems.
C7_CornerTouch ==
    Returned =>
        \A ab \in InputPairs :
            CornerTouch(ab[1], ab[2]) =>
                /\ CrossingPairs(ab[1], ab[2]) = {}
                /\ Len(contours) = 1
                /\ Len(contours[1].boundary) = 8
                /\ problems = <<>>

\* C8: two rectangles side by side, an edge of one strictly inside an edge
\* of the other, merge into one contour of 8 vertices, without problems.
C8_EdgeInsideEdge ==
    Returned =>
        \A ab \in InputPairs :
            EdgeInsideEdge(ab[1], ab[2]) =>
                /\ Len(contours) = 1
                /\ Len(contours[1].boundary) = 8
                /\ problems = <<>>

\* C9: a pass that merges takes two contours out and, unless the stitching
\* fails, puts one in: one contour less than before.
C9_OneLess ==
    (last.merged /\ ~last.failed) => (last.loops = 1 /\ Len(contours) = last.before - 1)

\* C10: after merge_all every contour is a loop of at least three points in
\* counter-clockwise order: its signed area is positive.
C10_CounterClockwise ==
    Returned =>
        \A k \in 1..Len(contours) :
            Len(contours[k].boundary) >= 3 /\ Shoelace(contours[k].boundary, 1) > 0

\* ------------------------------------------------------------------ C11

\* Some edge of c touches an edge of other that does not touch it back: the
\* collinear case of Edge::touches, one edge strictly inside the other.
OneWayTouch(c, other) ==
    \E i \in 1..Len(c.boundary) : \E j \in 1..Len(other.boundary) :
        Touches(Edges(c)[i], Edges(other)[j]) /\ ~Touches(Edges(other)[j], Edges(c)[i])

RECURSIVE BoundaryTotal(_, _)
BoundaryTotal(cs, k) ==
    IF k > Len(cs) THEN 0 ELSE Len(cs[k].boundary) + BoundaryTotal(cs, k + 1)

\* The sub-edges pooled by the merge of the i-th and j-th contour of cs.
PoolEdges(cs, i, j) == Untagged(Pool(cs[i], cs[j]))

\* The pooled sub-edges went to the added problems and to the closed loops:
\* every added problem is a pooled sub-edge, and the pool counts as many
\* sub-edges as the added problems and the points of the closed loops.
Shared(pool, added, closed) ==
    /\ \A k \in 1..Len(added) : \E e \in 1..Len(pool) : pool[e] = added[k]
    /\ Len(added) + closed = Len(pool)

\* C12: a pass of merge_all whose stitching fails does not panic and stays
\* in the loop of merge_all; it keeps the problems and the other contours,
\* keeps the loops closed before the failure, and appends to problems the
\* pooled sub-edges that are in none of those loops: the partial chain and
\* all that was left in the pool.
C12_FailureRecorded ==
    [][last'.failed =>
          /\ pc' = "loop"
          /\ Len(contours') = Len(contours) - 2 + last'.loops
          /\ \A k \in 1..Len(contours) :
                 k \notin {last'.i, last'.j} => \E l \in 1..Len(contours') : contours'[l] = contours[k]
          /\ Len(problems') > Len(problems)
          /\ SubSeq(problems', 1, Len(problems)) = problems
          /\ \E pool \in {PoolEdges(contours, last'.i, last'.j)} :
                 Shared(pool, SubSeq(problems', Len(problems) + 1, Len(problems')),
                        BoundaryTotal(contours', Len(contours) - 1))]_vars

\* C12 witness: after a failed stitch that kept a closed loop, merge_all has
\* merged that loop with another contour of the repository.
C12_Witness ==
    /\ problems # <<>>
    /\ last.merged /\ ~last.failed
    /\ Len(input) = 4
    /\ Len(contours) = 1

\* --------------------------------------------------------- GCodeGenerator

\* The generator is followed for at most this many calls that return.
MaxOps == 5

\* The coordinates given to the moves are 0..MaxCoord.
MaxCoord == 1

Coords == 0..MaxCoord

\* The points given to rapid and to move_xy.
Targets == {<<x, x>> : x \in Coords}

\* The feeds, spindle speeds and safe heights given to GCodeGenerator::new.
Settings == {<<100, 1000, 5>>, <<200, 500, 10>>}

GLine2(w, k1, v1, k2, v2) == [w |-> w, a |-> << <<k1, v1>>, <<k2, v2>> >>]

\* A call of a method in a state its assertion accepts: it pushes lines and
\* moves to the state next.
Accepted(name, lines, next) ==
    /\ actions' = actions \o lines
    /\ state' = next
    /\ ops' = ops + 1
    /\ gop' = [name |-> name, in |-> state]
    /\ UNCHANGED <<safe_height, gpc>>

\* A call whose assertion fails: the panic comes before any push.
Panicking(name) ==
    /\ gpc' = "panicked"
    /\ gop' = [name |-> name, in |-> state]
    /\ UNCHANGED <<state, actions, safe_height, ops>>

\* A method is called on a generator that is still there.
Callable == gpc = "ready" /\ ops < MaxOps

\* The body of GCodeGenerator::spindle_start_cwise
DoSpindleStartCwise ==
    IF state = "Stopped"
    THEN Accepted("spindle_start_cwise", <<GLine0("M3")>>, "SpinningDisengaged")
    ELSE Panicking("spindle_start_cwise")

\* The body of GCodeGenerator::spindle_start_ccwise
DoSpindleStartCcwise ==
    IF state = "Stopped"
    THEN Accepted("spindle_start_ccwise", <<GLine0("M4")>>, "SpinningDisengaged")
    ELSE Panicking("spindle_start_ccwise")

\* The body of GCodeGenerator::spindle_stop
DoSpindleStop ==
    IF state = "SpinningDisengaged"
    THEN Accepted("spindle_stop", <<GLine0("M5")>>, "Stopped")
    ELSE Panicking("spindle_stop")

\* The body of GCodeGenerator::engage
DoEngage ==
    IF state = "SpinningDisengaged"
    THEN Accepted("engage", <<GLine1("G1", "Z", 0)>>, "SpinningEngaged")
    ELSE Panicking("engage")

\* The body of GCodeGenerator::disengage
DoDisengage ==
    IF state = "SpinningEngaged"
    THEN Accepted("disengage", <<GLine1("G1", "Z", safe_height)>>, "SpinningDisengaged")
    ELSE Panicking("disengage")

\* The body of GCodeGenerator::rapid
DoRapid(x, y) ==
    IF state # "SpinningEngaged"
    THEN Accepted("rapid", <<GLine2("G0", "X", x, "Y", y)>>, state)
    ELSE Panicking("rapid")

\* The body of GCodeGenerator::move_xy
DoMoveXY(x, y) ==
    IF state = "SpinningEngaged"
    THEN Accepted("move_xy", <<GLine2("G1", "X", x, "Y", y)>>, state)
    ELSE Panicking("move_xy")

\* The body of GCodeGenerator::move_z
DoMoveZ(z) ==
    IF state = "SpinningEngaged"
    THEN Accepted("move_z", <<GLine1("G1", "Z", z)>>, state)
    ELSE Panicking("move_z")

\* The body of GCodeGenerator::helix_ccwise
DoHelixCcwise(end_x, end_y, end_z, offset_x, offset_y, turns) ==
    IF state = "SpinningEngaged"
    THEN Accepted("helix_ccwise",
                  <<GLine0("G17"),
                    [w |-> "G3", a |-> << <<"X", end_x>>, <<"Y", end_y>>, <<"Z", end_z>>,
                                          <<"I", offset_x>>, <<"J", offset_y>>, <<"P", turns>> >>]>>,
                  state)
    ELSE Panicking("helix_ccwise")

\* The body of GCodeGenerator::arc_ccwise, which asserts nothing.
DoArcCcwise(end_x, end_y, offset_x, offset_y) ==
    Accepted("arc_ccwise",
             <<GLine0("G17"),
               [w |-> "G3", a |-> << <<"X", end_x>>, <<"Y", end_y>>,
                                     <<"I", offset_x>>, <<"J", offset_y>> >>]>>,
             state)

\* The body of GCodeGenerator::into_string: the lines of the string it
\* returns are the actions, joined by new lines.
DoIntoString ==
    IF state = "Stopped"
    THEN /\ actions' = Append(actions, GLine0("M2"))
         /\ gpc' = "finished"
         /\ gop' = [name |-> "into_string", in |-> state]
         /\ UNCHANGED <<state, safe_height, ops>>
    ELSE Panicking("into_string")

\* GCodeGenerator::spindle_start_cwise
spindle_start_cwise ==
    /\ Callable
    /\ DoSpindleStartCwise
    /\ UNCHANGED <<vars, svars, dvars>>

\* GCodeGenerator::spindle_start_ccwise
spindle_start_ccwise ==
    /\ Callable
    /\ DoSpindleStartCcwise
    /\ UNCHANGED <<vars, svars, dvars>>

\* GCodeGenerator::spindle_stop
spindle_stop ==
    /\ Callable
    /\ DoSpindleStop
    /\ UNCHANGED <<vars, svars, dvars>>

\* engage without its assertion.
engageUnchecked ==
    /\ Callable
    /\ Accepted("engage", <<GLine1("G1", "Z", 0)>>, "SpinningEngaged")
    /\ UNCHANGED <<vars, svars, dvars>>

\* GCodeGenerator::engage
engage ==
    /\ Callable
    /\ DoEngage
    /\ UNCHANGED <<vars, svars, dvars>>

\* GCodeGenerator::disengage
disengage ==
    /\ Callable
    /\ DoDisengage
    /\ UNCHANGED <<vars, svars, dvars>>

\* GCodeGenerator::rapid
rapid ==
    /\ Callable
    /\ \E p \in Targets : DoRapid(p[1], p[2])
    /\ UNCHANGED <<vars, svars, dvars>>

\* GCodeGenerator::move_xy
move_xy ==
    /\ Callable
    /\ \E p \in Targets : DoMoveXY(p[1], p[2])
    /\ UNCHANGED <<vars, svars, dvars>>

\* GCodeGenerator::move_z
move_z ==
    /\ Callable
    /\ \E z \in Coords : DoMoveZ(z)
    /\ UNCHANGED <<vars, svars, dvars>>

\* The arguments given to helix_ccwise: end_x, end_y, end_z, offset_x,
\* offset_y, turns.
Helices == {<<x, x, 0, 0, x, 2>> : x \in Coords}

\* The arguments given to arc_ccwise: end_x, end_y, offset_x, offset_y.
Arcs == {<<x, 0, 0, x>> : x \in Coords}

\* GCodeGenerator::helix_ccwise
helix_ccwise ==
    /\ Callable
    /\ \E h \in Helices : DoHelixCcwise(h[1], h[2], h[3], h[4], h[5], h[6])
    /\ UNCHANGED <<vars, svars, dvars>>

\* GCodeGenerator::arc_ccwise
arc_ccwise ==
    /\ Callable
    /\ \E h \in Arcs : DoArcCcwise(h[1], h[2], h[3], h[4])
    /\ UNCHANGED <<vars, svars, dvars>>

\* into_string without its assertion.
into_stringUnchecked ==
    /\ gpc = "ready"
    /\ actions' = Append(actions, GLine0("M2"))
    /\ gpc' = "finished"
    /\ gop' = [name |-> "into_string", in |-> state]
    /\ UNCHANGED <<state, safe_height, ops>>
    /\ UNCHANGED <<vars, svars, dvars>>

\* GCodeGenerator::into_string
into_string ==
    /\ gpc = "ready"
    /\ DoIntoString
    /\ UNCHANGED <<vars, svars, dvars>>

\* A generator as GCodeGenerator::new makes it, beside an empty repository.
GInit ==
    (\E s \in Settings : GCodeGeneratorNew(s[1], s[2], s[3])) /\ InitWith(<<>>) /\ NoCall
    /\ driver = NoDriver

GNext ==
    \/ spindle_start_cwise
    \/ spindle_start_ccwise
    \/ spindle_stop
    \/ engage
    \/ disengage
    \/ rapid
    \/ move_xy
    \/ move_z
    \/ helix_ccwise
    \/ arc_ccwise
    \/ into_string

GSpec == GInit /\ [][GNext]_<<gvars, vars, svars, dvars>>

\* ------------------------------------------------------------ C13 .. C15

\* The transition table: the states in which a method is accepted.
AcceptedIn(name) ==
    CASE name \in {"spindle_start_cwise", "spindle_start_ccwise"} -> {"Stopped"}
      [] name \in {"spindle_stop", "engage"} -> {"SpinningDisengaged"}
      [] name = "disengage" -> {"SpinningEngaged"}
      [] name = "rapid" -> {"Stopped", "SpinningDisengaged"}

\* The transition table: the state a method leads to from the state from.
LeadsTo(name, from) ==
    CASE name \in {"spindle_start_cwise", "spindle_start_ccwise"} -> "SpinningDisengaged"
      [] name = "spindle_stop" -> "Stopped"
      [] name = "engage" -> "SpinningEngaged"
      [] name = "disengage" -> "SpinningDisengaged"
      [] name = "rapid" -> from

Tabled ==
    {"spindle_start_cwise", "spindle_start_ccwise", "spindle_stop", "engage", "disengage",
     "rapid"}

\* C13: a new generator is Stopped, and a call of a spindle method, of
\* engage, disengage or rapid in a state of the transition table has led to
\* the state the table gives, and in any other state has panicked without
\* changing the state.
C13_TransitionTable ==
    /\ gop.name = "new" => state = "Stopped" /\ gpc = "ready"
    /\ gop.name \in Tabled =>
           IF gop.in \in AcceptedIn(gop.name)
           THEN gpc # "panicked" /\ state = LeadsTo(gop.name, gop.in)
           ELSE gpc = "panicked" /\ state = gop.in

\* C13 witness: the spindle was started and the tool engaged (two calls the
\* table accepts), and then spindle_stop, which it rejects there, panicked.
C13_Witness ==
    /\ gop = [name |-> "spindle_stop", in |-> "SpinningEngaged"]
    /\ gpc = "panicked"
    /\ state = "SpinningEngaged"
    /\ ops >= 2

Cutting == {"move_xy", "move_z", "helix_ccwise", "arc_ccwise"}

\* C14: a cutting, helical or arc move called in a state other than
\* SpinningEngaged panics and appends nothing to the actions.
C14_CuttingOnlyEngaged ==
    [][(gop'.name \in Cutting /\ state # "SpinningEngaged") =>
           (gpc' = "panicked" /\ actions' = actions)]_gvars

\* The lines of log from the k-th on whose word is one of ws, counted.
RECURSIVE CountOf(_, _, _)
CountOf(log, ws, k) ==
    IF k > Len(log) THEN 0
    ELSE (IF log[k].w \in ws THEN 1 ELSE 0) + CountOf(log, ws, k + 1)

\* C15: into_string called in Stopped returns the actions with M2 appended
\* as the last line, and called in another state panics; so in every log it
\* has returned, M2 is the last line and nowhere else, and the spindle
\* starts (M3, M4) are as many as the spindle stops (M5).
C15_FinalisedStopped ==
    /\ gop.name = "into_string" =>
           IF gop.in = "Stopped"
           THEN gpc = "finished" /\ actions[Len(actions)] = GLine0("M2")
           ELSE gpc = "panicked"
    /\ gpc = "finished" =>
           /\ gop = [name |-> "into_string", in |-> "Stopped"]
           /\ state = "Stopped"
           /\ CountOf(actions, {"M2"}, 1) = 1
           /\ CountOf(actions, {"M3", "M4"}, 1) = CountOf(actions, {"M5"}, 1)

\* C15 witness: a log was finalised after the spindle had been started and
\* stopped twice.
C15_Witness ==
    /\ gpc = "finished"
    /\ CountOf(actions, {"M5"}, 1) = 2
    /\ CountOf(actions, {"M3"}, 1) = 1
    /\ CountOf(actions, {"M4"}, 1) = 1

\* ------------------------------------------------------------------ C16

\* The points contains is asked about: those of the half-unit lattice over
\* the inputs, which has the vertices, points on the edges, inside and
\* outside of every contour.
Probes == {Half(x, y) : x \in 0..(2 * MaxX + 2), y \in 0..(2 * MaxY)}

\* The contour c contains the points that a or b contains, and no other.
ContainsEither(c, a, b) == \A p \in Probes : Contains(c, p) <=> (Contains(a, p) \/ Contains(b, p))

\* C16: every contour that a merge of a and b pushes has the constituents
\* of a followed by those of b, and contains a point iff a or b contained
\* it, whatever its boundary.
C16_ContainsUnion ==
    [][last'.merged =>
          \A l \in (Len(contours) - 1)..Len(contours') :
              /\ contours'[l].area = contours[last'.i].area \o contours[last'.j].area
              /\ ContainsEither(contours'[l], contours[last'.i], contours[last'.j])]_vars

\* C16 witness: the repository holds a merged contour whose boundary is the
\* loop around a hole between its three constituents: it contains
\* (1.5, 3.5), a point of the vertical bar outside that loop, and not
\* (2.25, 2.25), a point of the hole inside it.
C16_Witness ==
    /\ Returned
    /\ Len(contours) = 2
    /\ Len(contours[2].area) = 3
    /\ Shoelace(contours[2].boundary, 1) < 0
    /\ Contains(contours[2], Half(3, 7))
    /\ ~Contains(contours[2], Quarter(9, 9))

\* ----------------------------------------------------------------- shapes

\* Lengths (a thickness, a radius, a resolution, an offset of grow) are
\* integers of grid units, as the coordinates are.

\* The thicknesses and radii given to the constructors run from -1.0 to
\* MaxSize.
MaxSize == 2

Sizes == {k * Scale : k \in (-1)..MaxSize}

Resolutions == {Scale, 4 * Scale}

Offsets == {-Scale, 0, Scale}

\* A pentagon listed clockwise whose second corner, (62.75, 2.25), is off
\* the line from the first to the third by less than E when seen from the
\* long edge before it, and by 0.25 when seen from the short edge after it.
SliverPoints == <<<<0, 10>>, <<251, 9>>, <<252, 9>>, <<252, 0>>, <<0, 0>>>>

\* The point lists given to Line::new and ConvexPolygon::new: too short
\* ones, a triangle, rectangles listed either way round, three points in a
\* line, a dart (not convex), a list that repeats a point, and the sliver.
PointLists ==
    {<<>>, <<Pt(0, 0)>>, <<Pt(0, 0), Pt(1, 0)>>,
     <<Pt(0, 0), Pt(2, 0), Pt(0, 2)>>,
     RectPoints(0, 0, 1, 1, TRUE), RectPoints(0, 0, 1, 1, FALSE),
     RectPoints(1, 0, 3, 1, TRUE), RectPoints(1, 0, 3, 1, FALSE),
     <<Pt(0, 0), Pt(1, 0), Pt(2, 0)>>,
     <<Pt(0, 0), Pt(2, 0), Pt(1, 1), Pt(2, 2), Pt(0, 2)>>,
     <<Pt(0, 2), Pt(2, 2), Pt(1, 1), Pt(2, 0), Pt(0, 0)>>,
     <<Pt(0, 0), Pt(0, 0), Pt(1, 0), Pt(1, 1)>>,
     SliverPoints}

\* What a constructor or a method returns: ret is "Ok", "Err" (an error
\* is returned) or "Panic", and shape is the shape then.
Ok(s) == [ret |-> "Ok", shape |-> s]

\* Line::new
LineNew(points, thickness, resolution) ==
    IF Len(points) < 2 \/ ~(thickness > 0) THEN [ret |-> "Err", shape |-> NoShape]
    ELSE Ok([NoShape EXCEPT !.kind = "Line", !.points = points, !.thickness = thickness,
                            !.resolution = resolution])

\* Edge::from does not panic on any edge of the closed boundary b.
EdgesOk(b) == \A i \in 1..Len(b) : EdgeOk(b[i], b[(i % Len(b)) + 1])

\* ConvexPolygon::new with its resolution, and with the panic of Edge::from
\* in get_boundary_edges.
PolyNew(points, resolution) ==
    IF Len(points) < 3 THEN [ret |-> "Err", shape |-> NoShape]
    ELSE IF ~EdgesOk(points) THEN [ret |-> "Panic", shape |-> NoShape]
    ELSE IF TurnedRight(points) /\ TurnedLeft(points) THEN [ret |-> "Err", shape |-> NoShape]
    ELSE Ok([NoShape EXCEPT !.kind = "Poly", !.boundary = ConvexPolygonNew(points),
                            !.resolution = resolution])

\* Circle::new, which returns Self and checks nothing.
CircleNew(center, radius, resolution) ==
    Ok([NoShape EXCEPT !.kind = "Circ", !.center = center, !.radius = radius,
                       !.resolution = resolution])

\* An edge along an axis: the only ones whose normalised directions the
\* model has exactly.
AxisAligned(e) == e[1][1] = e[2][1] \/ e[1][2] = e[2][2]

Sign(x) == IF x > 0 THEN 1 ELSE IF x < 0 THEN -1 ELSE 0

\* Edge::right, normalised, of an edge along an axis.
RightUnit(e) == <<Sign(e[2][2] - e[1][2]), -Sign(e[2][1] - e[1][1])>>

\* Edge::translate_right
TranslateRight(e, distance) ==
    <<<<e[1][1] + RightUnit(e)[1] * distance, e[1][2] + RightUnit(e)[2] * distance>>,
      <<e[2][1] + RightUnit(e)[1] * distance, e[2][2] + RightUnit(e)[2] * distance>>>>

\* The origin of Edge::find_arc: the end of self moved left by radius.
ArcOrigin(self, radius) ==
    <<self[2][1] - RightUnit(self)[1] * radius, self[2][2] - RightUnit(self)[2] * radius>>

\* Edge::find_arc between two edges along the axes when the arc is made of
\* one segment: its two ends, origin + v_rot before and after the rotation
\* by the turn angle, which takes the right of self to the right of other.
FindArc(self, other, radius) ==
    <<<<ArcOrigin(self, radius)[1] + RightUnit(self)[1] * radius,
        ArcOrigin(self, radius)[2] + RightUnit(self)[2] * radius>>,
      <<ArcOrigin(self, radius)[1] + RightUnit(other)[1] * radius,
        ArcOrigin(self, radius)[2] + RightUnit(other)[2] * radius>>>>

\* The edges of the boundary b, each translated right by offset.
Translated(b, offset) == [i \in 1..Len(b) |-> TranslateRight(BoundaryEdges(b)[i], offset)]

\* The loop of ConvexPolygon::grow over the translated edges t from the
\* i-th on: the arc from each edge to the one after it.
RECURSIVE GrowArcs(_, _, _)
GrowArcs(t, offset, i) ==
    IF i > Len(t) THEN <<>>
    ELSE FindArc(t[i], t[(i % Len(t)) + 1], offset) \o GrowArcs(t, offset, i + 1)

\* find_arc panics on some corner of the translated edges t: the start of
\* the next edge is collinear with the edge.
ArcPanics(t) == \E i \in 1..Len(t) : Turning(t[i], Start(t[(i % Len(t)) + 1])) = "Collinear"

\* Line::grow with = for +=.
LineGrowAssign(s, offset) == Ok([s EXCEPT !.thickness = offset * 2])

\* <Line as Shape>::grow
LineGrow(s, offset) == Ok([s EXCEPT !.thickness = @ + offset * 2])

\* <Circle as Shape>::grow
CircleGrow(s, offset) == Ok([s EXCEPT !.radius = @ + offset])

\* <ConvexPolygon as Shape>::grow.  find_arc asserts radius > 0 and panics
\* on a collinear corner, before self.boundary is assigned.
PolyGrow(s, offset) ==
    IF offset = 0 THEN Ok(s)
    ELSE IF ~(offset > 0) \/ ArcPanics(Translated(s.boundary, offset))
    THEN [ret |-> "Panic", shape |-> s]
    ELSE Ok([s EXCEPT !.boundary = GrowArcs(Translated(s.boundary, offset), offset, 1)])

\* <ShapeE as Shape>::grow
Grow(s, offset) ==
    CASE s.kind = "Line" -> LineGrow(s, offset)
      [] s.kind = "Poly" -> PolyGrow(s, offset)
      [] s.kind = "Circ" -> CircleGrow(s, offset)

\* <ConvexPolygon as Shape>::boundary; those of Line and Circle, functions
\* of their fields alone, turn vectors by angles the model does not compute.
PolyBoundary(s) == s.boundary

\* The model follows grow where its arithmetic is exact: on lines and
\* circles; on a polygon by 0 or less; and on a polygon by more than 0 when
\* its edges lie along the axes and every arc is one segment, that is
\* ceil(offset * (PI / 2) / resolution) = 1, for which 2 * offset <=
\* resolution is enough.
Followed(s, offset) ==
    \/ s.kind \in {"Line", "Circ"}
    \/ s.kind = "Poly" /\ offset <= 0
    \/ /\ s.kind = "Poly"
       /\ \A i \in 1..Len(s.boundary) : AxisAligned(BoundaryEdges(s.boundary)[i])
       /\ 2 * offset <= s.resolution

\* The thickness and the radius are followed up to this size.
InRange(s) ==
    Abs(s.thickness) <= (MaxSize + 2) * Scale /\ Abs(s.radius) <= (MaxSize + 2) * Scale

\* The edges and points given to Edge::turning: those of a small lattice
\* around the origin, and a long edge with points close to its line.
Lattice == {Pt(x, y) : x \in (-1)..2, y \in (-1)..2}

TurningEdges ==
    {e \in Lattice \X Lattice : EdgeOk(e[1], e[2])}
        \cup {<<<<0, 10>>, <<251, 9>>>>, <<<<251, 9>>, <<0, 10>>>>}

TurningPoints == Lattice \cup {<<252, 9>>, <<250, 9>>, <<502, 8>>}

\* A constructor has returned r.
Constructed(f, args, r) ==
    /\ shape' = r.shape
    /\ scall' = [f |-> f, args |-> args]
    /\ sret' = r.ret

\* Line::new is called.
line_new ==
    /\ \E points \in PointLists, thickness \in Sizes, resolution \in Resolutions :
           Constructed("Line::new", <<points, thickness, resolution>>,
                       LineNew(points, thickness, resolution))
    /\ UNCHANGED <<vars, gvars, dvars>>

\* ConvexPolygon::new is called.
polygon_new ==
    /\ \E points \in PointLists, resolution \in Resolutions :
           Constructed("ConvexPolygon::new", <<points, resolution>>, PolyNew(points, resolution))
    /\ UNCHANGED <<vars, gvars, dvars>>

\* Circle::new is called.
circle_new ==
    /\ \E center \in {Pt(0, 0), Pt(1, 2)}, radius \in Sizes, resolution \in Resolutions :
           Constructed("Circle::new", <<center, radius, resolution>>,
                       CircleNew(center, radius, resolution))
    /\ UNCHANGED <<vars, gvars, dvars>>

\* grow is called on the shape, unless a panic has left none to call it on.
grow ==
    /\ shape.kind # "None"
    /\ sret # "Panic"
    /\ \E offset \in Offsets :
           /\ Followed(shape, offset)
           /\ InRange(Grow(shape, offset).shape)
           /\ shape' = Grow(shape, offset).shape
           /\ scall' = [f |-> "grow", args |-> <<offset>>, before |-> shape]
           /\ sret' = Grow(shape, offset).ret
    /\ UNCHANGED <<vars, gvars, dvars>>

\* The edge (0, 0) -> (0, 1) and its reverse, in units of E.
FineEdges == {<<<<0, 0>>, <<0, EInv>>>>, <<<<0, EInv>>, <<0, 0>>>>}

\* Points at 0, E and 2 E from the line x = 0, in units of E.
FinePoints == {<<x, y>> : x \in (-2)..2, y \in {0, EInv \div 2, 2 * EInv}}

\* The calls of Edge::turning: <<edge, point, units per 1.0>>.
TurningCalls ==
    {<<e, p, Scale>> : e \in TurningEdges, p \in TurningPoints}
        \cup {<<e, p, EInv>> : e \in FineEdges, p \in FinePoints}

\* Edge::turning with Left and Right exchanged.
TurningAtSwapped(unit, e, p) ==
    LET c == Cross(e, p)
        n == Abs(c) * (EInv \div unit)
    IN  IF n < Mag2(e[1], e[2]) /\ n * n < Mag2(e[1], e[2]) THEN "Collinear"
        ELSE IF c > 0 THEN "Right" ELSE "Left"

\* Edge::turning on coordinates in units of 1 / unit, unit a divisor of
\* 1 / E: dot = c / (unit * |e|), and dot.abs() < E is
\* |c| * (EInv / unit) < |e|.  The first conjunct follows from the second
\* and keeps the square small.
TurningAt(unit, e, p) ==
    LET c == Cross(e, p)
        n == Abs(c) * (EInv \div unit)
    IN  IF n < Mag2(e[1], e[2]) /\ n * n < Mag2(e[1], e[2]) THEN "Collinear"
        ELSE IF c > 0 THEN "Left" ELSE "Right"

\* Edge::turning is applied to the edge and the point drawn for it.
turning ==
    /\ scall.f = "turning"
    /\ sret = "none"
    /\ sret' = TurningAt(scall.args[3], scall.args[1], scall.args[2])
    /\ UNCHANGED <<shape, scall, vars, gvars, dvars>>

SInit == NoCall /\ InitWith(<<>>) /\ GCodeGeneratorNew(1, 1, 1) /\ driver = NoDriver

SNext == line_new \/ polygon_new \/ circle_new \/ grow

SSpec == SInit /\ [][SNext]_<<svars, vars, gvars, dvars>>

TInit ==
    /\ shape = NoShape
    /\ driver = NoDriver
    /\ \E call \in TurningCalls : scall = [f |-> "turning", args |-> call]
    /\ sret = "none"
    /\ InitWith(<<>>)
    /\ GCodeGeneratorNew(1, 1, 1)

TNext == turning

TSpec == TInit /\ [][TNext]_<<svars, vars, gvars, dvars>>

\* ------------------------------------------------------------------ C17

\* The arguments of the last call.
Arg(k) == scall.args[k]

\* The last call was rejected: an error came back and no shape with it.
Rejected == sret = "Err" /\ shape = NoShape

\* A boundary that turns both ways.
NonConvex(points) == EdgesOk(points) /\ TurnedRight(points) /\ TurnedLeft(points)

LineRejections ==
    (scall.f = "Line::new" /\ (Len(Arg(1)) < 2 \/ Arg(2) <= 0)) => Rejected

PolygonRejections ==
    (scall.f = "ConvexPolygon::new" /\ (Len(Arg(1)) < 3 \/ NonConvex(Arg(1)))) => Rejected

CircleRejections ==
    (scall.f = "Circle::new" /\ Arg(2) <= 0) => Rejected

\* C17: the construction of a shape is rejected with an error, and no shape
\* is produced, for a Line with fewer than 2 points or a thickness <= 0, for
\* a ConvexPolygon with fewer than 3 points or a non-convex boundary, and
\* for a Circle with a radius <= 0.  Circle::new returns Self, not a
\* Result, and looks at none of its arguments: the part about circles fails.
C17_ConstructionRejected == LineRejections /\ PolygonRejections /\ CircleRejections

\* ------------------------------------------------------------------ C18

\* A boundary of 3 points or more, all of whose turns off the line are Right.
RightOnly(points) ==
    Len(points) >= 3 /\ EdgesOk(points) /\ TurnedRight(points) /\ ~TurnedLeft(points)

ReversedWhenRight ==
    (scall.f = "ConvexPolygon::new" /\ RightOnly(Arg(1)))
        => (sret = "Ok" /\ shape.boundary = Reverse(Arg(1)))

FailsWhenBoth ==
    (scall.f = "ConvexPolygon::new" /\ Len(Arg(1)) >= 3 /\ NonConvex(Arg(1))) => sret = "Err"

NoRightTurnStored ==
    (scall.f = "ConvexPolygon::new" /\ sret = "Ok") => ~TurnedRight(shape.boundary)

\* C18: ConvexPolygon::new reverses the points when every turn of the input
\* off the line is Right, fails when the input turns both Left and Right,
\* and no consecutive pair of edges (e1, e2) of the boundary it stores has
\* e1.turning(e2.end) = Right.  The last part fails: the tolerance of
\* turning is applied to the distance of e2.end from the line of e1, which
\* for one corner differs between the two directions of travel, so that a
\* corner taken as Collinear on the way in is a Right turn after the
\* reversal.
C18_Convexity == ReversedWhenRight /\ FailsWhenBoth /\ NoRightTurnStored

\* ------------------------------------------------------------------ C19

\* turning has returned.
Turned == scall.f = "turning" /\ sret # "none"

\* The cross product of the edge's direction with the vector from the
\* edge's end to the point.
CrossFromEnd(e, p) ==
    (e[2][1] - e[1][1]) * (p[2] - e[2][2]) - (e[2][2] - e[1][2]) * (p[1] - e[2][1])

\* The signed distance c / (unit * |e|) of the point from the line of the
\* edge is above E: c * (EInv / unit) > |e|.
AboveE(unit, c, e) ==
    LET n == c * (EInv \div unit)
    IN  n > 0 /\ (n > Mag2(e[1], e[2]) \/ n * n > Mag2(e[1], e[2]))

\* The signed distance is E or more.
AtLeastE(unit, c, e) ==
    LET n == c * (EInv \div unit)
    IN  n > 0 /\ (n >= Mag2(e[1], e[2]) \/ n * n >= Mag2(e[1], e[2]))

\* The examples: the edge (0, 0) -> (0, 1) with (-1, -1), (0, 2), (1, 1).
ExamplesHold ==
    (Turned /\ Arg(3) = Scale /\ Arg(1) = <<Pt(0, 0), Pt(0, 1)>>) =>
        /\ Arg(2) = Pt(-1, -1) => sret = "Left"
        /\ Arg(2) = Pt(0, 2) => sret = "Collinear"
        /\ Arg(2) = Pt(1, 1) => sret = "Right"

\* The turning of the merge model is Edge::turning at the unit of the grid.
TurningAgrees ==
    (Turned /\ Arg(3) = Scale) => sret = Turning(Arg(1), Arg(2))

\* C19, as stated: turning(p) is Left when the signed distance of p from
\* the line of the edge is above the tolerance, Right when it is below
\* minus the tolerance, and Collinear otherwise; for the edge
\* (0, 0) -> (0, 1), (-1, -1) is Left, (0, 2) Collinear and (1, 1) Right.
\* It fails at a distance of exactly the tolerance, where dot.abs() < E is
\* false and the point is Left or Right.
C19_AboveTolerance ==
    /\ Turned =>
           sret = (IF AboveE(Arg(3), CrossFromEnd(Arg(1), Arg(2)), Arg(1)) THEN "Left"
                   ELSE IF AboveE(Arg(3), -CrossFromEnd(Arg(1), Arg(2)), Arg(1)) THEN "Right"
                   ELSE "Collinear")
    /\ ExamplesHold

\* C19, amended: turning(p) is Left when the signed distance of p from the
\* line of the edge is the tolerance or more, Right when it is minus the
\* tolerance or less, and Collinear when it is strictly between the two
\* (the points of the edge's extension among them); for the edge
\* (0, 0) -> (0, 1), (-1, -1) is Left, (0, 2) Collinear and (1, 1) Right.
C19_Turning ==
    /\ Turned =>
           sret = (IF AtLeastE(Arg(3), CrossFromEnd(Arg(1), Arg(2)), Arg(1)) THEN "Left"
                   ELSE IF AtLeastE(Arg(3), -CrossFromEnd(Arg(1), Arg(2)), Arg(1)) THEN "Right"
                   ELSE "Collinear")
    /\ ExamplesHold
    /\ TurningAgrees

\* A point at exactly the tolerance to the left of the edge has been
\* classified.
C19_Witness ==
    /\ Turned
    /\ scall.args = <<<<<<0, 0>>, <<0, EInv>>>>, <<-1, EInv \div 2>>, EInv>>
    /\ sret = "Left"

\* ------------------------------------------------------------------ C20

\* C20: grow(0) on a Line, a ConvexPolygon or a Circle returns and leaves
\* every field of the shape (points, boundary, center, thickness, radius,
\* resolution) as it was, so that boundary(), a function of these fields,
\* returns what it returned before; for the polygon it is the stored
\* boundary itself.
C20_GrowZero ==
    (scall.f = "grow" /\ Arg(1) = 0) =>
        /\ sret = "Ok"
        /\ shape = scall.before
        /\ shape.kind = "Poly" => PolyBoundary(shape) = PolyBoundary(scall.before)

\* A polygon grown before, its corners rounded, has been grown by 0.
C20_Witness ==
    /\ scall.f = "grow"
    /\ Arg(1) = 0
    /\ sret = "Ok"
    /\ shape.kind = "Poly"
    /\ Len(shape.boundary) = 8

\* ------------------------------------------------------------------ C21

\* <<k, l>> comes before <<i, j>> in the order of the scan.
ScannedBefore(k, l, i, j) == k < i \/ (k = i /\ l < j)

\* <<i, j>> is the first mergeable pair of cs in the order of the scan.
FirstInScan(cs, i, j) ==
    /\ i < j
    /\ IsMergeable(cs[i], cs[j])
    /\ \A k \in 1..Len(cs) : \A l \in (k + 1)..Len(cs) :
           ScannedBefore(k, l, i, j) => ~IsMergeable(cs[k], cs[l])

\* C21: each merging pass of merge_all merges the first mergeable pair in
\* the order of the scan, the least <<i, j>> with i < j and
\* contours[i].is_mergeable(contours[j]), and the scan starts again.  The
\* break of merge_all leaves the inner loop only: the scan goes on with the
\* next i, and the pair merged is that of the last i that has a mergeable j.
C21_FirstPairMerged ==
    [][last'.merged =>
          /\ FirstInScan(contours, last'.i, last'.j)
          /\ pc' \in {"loop", "cut"}]_vars

\* ------------------------------------------------------------------ C22

\* The greatest common divisor of two numbers, not both 0.
RECURSIVE Gcd(_, _)
Gcd(m, n) == IF n = 0 THEN Abs(m) ELSE Gcd(n, m % Abs(n))

\* Points are probed in eighths of a grid unit.
Eighth(p) == <<8 * p[1], 8 * p[2]>>

\* The middle of the edge e, in eighths.
Middle(e) == <<4 * (e[1][1] + e[2][1]), 4 * (e[1][2] + e[2][2])>>

\* The least whole step to the right of e.
StepRight(e) ==
    LET dx == e[2][1] - e[1][1]
        dy == e[2][2] - e[1][2]
    IN  <<dy \div Gcd(dx, dy), (-dx) \div Gcd(dx, dy)>>

\* The points just to the right and just to the left of the middle of e.
RightOfMiddle(e) == <<Middle(e)[1] + StepRight(e)[1], Middle(e)[2] + StepRight(e)[2]>>

LeftOfMiddle(e) == <<Middle(e)[1] - StepRight(e)[1], Middle(e)[2] - StepRight(e)[2]>>

\* The point q, in eighths, lies in the convex counter-clockwise polygon
\* poly or on its boundary: exactly, without a tolerance.
Within(poly, q) ==
    \A i \in 1..Len(poly) :
        Cross(<<Eighth(BoundaryEdges(poly)[i][1]), Eighth(BoundaryEdges(poly)[i][2])>>, q) >= 0

\* q lies in the area of c.
InArea(c, q) == \E k \in 1..Len(c.area) : Within(c.area[k], q)

\* The edge e is part of the boundary of the union of a and b: the union
\* lies on one side of it and not on the other.
OnUnionBoundary(e, a, b) ==
    (InArea(a, LeftOfMiddle(e)) \/ InArea(b, LeftOfMiddle(e)))
        # (InArea(a, RightOfMiddle(e)) \/ InArea(b, RightOfMiddle(e)))

\* The pieces of one edge cut at the points ends, the last being its end.
RECURSIVE Pieces(_, _)
Pieces(prev, ends) ==
    IF ends = <<>> THEN <<>>
    ELSE IF P2eq(prev, Head(ends)) THEN Pieces(prev, Tail(ends))
    ELSE << <<prev, Head(ends)>> >> \o Pieces(Head(ends), Tail(ends))

\* The pieces of all edges of c from the i-th on, cut where they meet other.
RECURSIVE AllPieces(_, _, _)
AllPieces(c, other, i) ==
    IF i > Len(c.boundary) THEN <<>>
    ELSE Pieces(c.boundary[i],
                Append(SortInts(c.boundary[i], Points(Intersections(Edges(c)[i], Edges(other), 1))),
                       End(Edges(c)[i])))
            \o AllPieces(c, other, i + 1)

Among(e, edges) == \E k \in 1..Len(edges) : edges[k] = e

\* Of the pieces of a, those dropped lie in b, and those on the boundary of
\* the union are in the pool.
BrokenWell(a, b, pieces, kept, pool) ==
    \A k \in 1..Len(pieces) :
        /\ ~Among(pieces[k], kept) => InArea(b, Middle(pieces[k]))
        /\ OnUnionBoundary(pieces[k], a, b) => Among(pieces[k], pool)

\* Only the dropped pieces of a that lie in b.
DroppedInside(a, b, pieces, kept) ==
    \A k \in 1..Len(pieces) : ~Among(pieces[k], kept) => InArea(b, Middle(pieces[k]))

\* C22: when merge breaks the edges of a against b (and of b against a), a
\* sub-edge is discarded only if it lies inside the other contour, and every
\* sub-edge that is part of the boundary of the union of the two, that of an
\* enclosed hole included, and also when the other contour is not convex, is
\* in the pool that is stitched.  Both fail: a sub-edge is discarded when its
\* two ends are contained, whatever lies between them, and a point of the
\* other's boundary is contained.
C22_BoundarySurvives ==
    [][(last'.merged /\ pc' # "panicked") =>
          \E a \in {contours[last'.i]}, b \in {contours[last'.j]} :
              \E pool \in {PoolEdges(contours, last'.i, last'.j)} :
                  /\ BrokenWell(a, b, AllPieces(a, b, 1), BreakEdges(a, b), pool)
                  /\ BrokenWell(b, a, AllPieces(b, a, 1), BreakEdges(b, a), pool)]_vars

\* The first half of C22 alone.
C22_DroppedInside ==
    [][(last'.merged /\ pc' # "panicked") =>
          \E a \in {contours[last'.i]}, b \in {contours[last'.j]} :
              /\ DroppedInside(a, b, AllPieces(a, b, 1), BreakEdges(a, b))
              /\ DroppedInside(b, a, AllPieces(b, a, 1), BreakEdges(b, a))]_vars

\* ================================================================= edges
\* The functions of two edges (src/src/geo/edge.rs) and their callers, on
\* the edges between the points of a small lattice.

MaxEX == 3

MaxEY == 2

EPoints == {Pt(x, y) : x \in 0..MaxEX, y \in 0..MaxEY}

\* Edge::from
EEdges == {e \in EPoints \X EPoints : EdgeOk(e[1], e[2])}

\* The branch Edge::distance takes: "end" (p is an end of the edge),
\* "vertical", "foot" (the closest point lies on the segment, and is looked
\* for with find_intersection), "ends".
DistanceBranch(e, p) ==
    LET s == e[1]
        t == e[2]
        l == LeftOf(e)
        turning1 == Turning(<<s, <<s[1] + l[1], s[2] + l[2]>> >>, p)
        turning2 == Turning(<<t, <<t[1] + l[1], t[2] + l[2]>> >>, p)
    IN  IF DLtE([n |-> Mag2(s, p), d |-> 1]) \/ DLtE([n |-> Mag2(t, p), d |-> 1]) THEN "end"
        ELSE IF Feq(t[1] - s[1], 0) THEN "vertical"
        ELSE IF TurnRank(turning1) > TurnRank("Left") /\ TurnRank(turning2) < TurnRank("Right")
        THEN "foot"
        ELSE "ends"

\* fake_p_line of Edge::distance: through p, perpendicular to e.
FakePLine(e, p) == <<p, <<p[1] + LeftOf(e)[1], p[2] + LeftOf(e)[2]>> >>

\* What a caller of find_intersection has done with the edges a and b:
\* whether it called, whether a crosses or touches b, whether an assertion
\* failed, and the point that came back.
Called(a, b) ==
    [called |-> TRUE, crosses |-> Crosses(a, b), touches |-> Touches(a, b),
     panicked |-> FindIntersection(a, b) = Panic, point |-> FindIntersection(a, b)]

NotCalled(a, b) ==
    [called |-> FALSE, crosses |-> Crosses(a, b), touches |-> Touches(a, b),
     panicked |-> FALSE, point |-> Panic]

\* The closure of the filter_map of Contour::break_edges, on tseg and oseg.
BreakPair(tseg, oseg) ==
    IF Crosses(tseg, oseg) /\ Touches(tseg, oseg)
    THEN [NotCalled(tseg, oseg) EXCEPT !.panicked = TRUE]
    ELSE IF Crosses(tseg, oseg) \/ Touches(tseg, oseg) THEN Called(tseg, oseg)
    ELSE NotCalled(tseg, oseg)

\* The call of find_intersection in Edge::distance.
DistanceCall(e, p) ==
    IF DistanceBranch(e, p) = "foot" THEN Called(e, FakePLine(e, p))
    ELSE NotCalled(e, FakePLine(e, p))

\* A corner of the right edge of Line::boundary: the segments p1 -> p2 and
\* p2 -> p3, each moved right by half the thickness, meet in their
\* intersection if they cross, and in an arc if not.
LineCorner(p1, p2, p3, half) ==
    IF Crosses(TranslateRight(<<p1, p2>>, half), TranslateRight(<<p2, p3>>, half))
    THEN Called(TranslateRight(<<p1, p2>>, half), TranslateRight(<<p2, p3>>, half))
    ELSE NotCalled(TranslateRight(<<p1, p2>>, half), TranslateRight(<<p2, p3>>, half))

\* The corners of the lines along the axes, with the halves of their
\* thickness.
Corners ==
    {c \in EPoints \X EPoints \X EPoints \X {Scale \div 2, Scale} :
        /\ EdgeOk(c[1], c[2]) /\ AxisAligned(<<c[1], c[2]>>)
        /\ EdgeOk(c[2], c[3]) /\ AxisAligned(<<c[2], c[3]>>)}

\* The first edge of a call starts in the corner or inside the lattice.
EFirst == {e \in EEdges : e[1] \in {Pt(0, 0), Pt(1, 1)}}

\* The calls: two edges for crosses, touches and break_edges, an edge and a
\* point for distance, a corner for Line::boundary.
ECalls ==
    {[f |-> f, args |-> p, done |-> FALSE] :
        f \in {"crosses", "touches", "break_edges"}, p \in EFirst \X EEdges}
    \cup {[f |-> "distance", args |-> p, done |-> FALSE] : p \in EFirst \X EPoints}
    \cup {[f |-> "Line::boundary", args |-> c, done |-> FALSE] : c \in Corners}

\* The call f returns r.
Returns(f, r) ==
    /\ scall.f = f
    /\ ~scall.done
    /\ scall' = [scall EXCEPT !.done = TRUE]
    /\ sret' = r

\* Edge::crosses
crosses ==
    /\ Returns("crosses", [crosses |-> Crosses(scall.args[1], scall.args[2])])
    /\ UNCHANGED <<shape, vars, gvars, dvars>>

\* Edge::touches
touches ==
    /\ Returns("touches", [touches |-> Touches(scall.args[1], scall.args[2])])
    /\ UNCHANGED <<shape, vars, gvars, dvars>>

\* The closure of Contour::break_edges is applied to a pair of edges.
break_edges ==
    /\ Returns("break_edges", BreakPair(scall.args[1], scall.args[2]))
    /\ UNCHANGED <<shape, vars, gvars, dvars>>

\* Edge::distance
distance ==
    /\ Returns("distance", DistanceCall(scall.args[1], scall.args[2]))
    /\ UNCHANGED <<shape, vars, gvars, dvars>>

\* Line::boundary comes to a corner of the right edge.
line_boundary ==
    /\ Returns("Line::boundary",
               LineCorner(scall.args[1], scall.args[2], scall.args[3], scall.args[4]))
    /\ UNCHANGED <<shape, vars, gvars, dvars>>

EInit ==
    /\ shape = NoShape
    /\ driver = NoDriver
    /\ scall \in ECalls
    /\ sret = "none"
    /\ InitWith(<<>>)
    /\ GCodeGeneratorNew(1, 1, 1)

ENext == crosses \/ touches \/ break_edges \/ distance \/ line_boundary

ESpec == EInit /\ [][ENext]_<<svars, vars, gvars, dvars>>

\* ------------------------------------------------------------------ C23

\* The call f has returned.
Done(f) == scall.f = f /\ scall.done

\* The edges a and b lie on one line.
OnOneLine(a, b) ==
    Cross(a, b[1]) = 0 /\ Cross(a, b[2]) = 0 /\ Cross(b, a[1]) = 0 /\ Cross(b, a[2]) = 0

\* The coordinate along which the edge a is measured: x, or y if a is
\* vertical.
Along(a) == IF a[1][1] # a[2][1] THEN 1 ELSE 2

Max(x, y) == IF x > y THEN x ELSE y

\* The intervals of a and b along their common line have a point in common.
IntervalsOverlap(a, b) ==
    Max(Min(a[1][Along(a)], a[2][Along(a)]), Min(b[1][Along(a)], b[2][Along(a)]))
        <= Min(Max(a[1][Along(a)], a[2][Along(a)]), Max(b[1][Along(a)], b[2][Along(a)]))

\* C23: for two edges on one line, touches(e1, e2) is true if and only if
\* their intervals along the line overlap, also when one edge lies strictly
\* inside the other, and touches(e2, e1) is the same.  It fails for an edge
\* strictly inside the other: touches looks for an end of other on self
\* only, and there is none.
C23_CollinearTouch ==
    (Done("touches") /\ OnOneLine(Arg(1), Arg(2))) =>
        /\ sret.touches = IntervalsOverlap(Arg(1), Arg(2))
        /\ sret.touches = Touches(Arg(2), Arg(1))

\* ------------------------------------------------------------------ C24

\* The ends of b are classified on opposite sides of a: one Left, one
\* Right.
OppositeSides(a, b) == {Turning(a, b[1]), Turning(a, b[2])} = {"Left", "Right"}

\* C24: crosses(e1, e2) is true if and only if the two ends of each edge
\* are classified on opposite sides of the other, one Left and one Right;
\* crosses and touches are never both true of a pair of edges, and the
\* assertion of break_edges on them does not fail.
C24_CrossesXorTouches ==
    /\ Done("crosses") =>
           sret.crosses = (OppositeSides(Arg(1), Arg(2)) /\ OppositeSides(Arg(2), Arg(1)))
    /\ Done("break_edges") =>
           /\ ~(sret.crosses /\ sret.touches)
           /\ sret.crosses = (OppositeSides(Arg(1), Arg(2)) /\ OppositeSides(Arg(2), Arg(1)))
           /\ sret.panicked => sret.called

\* The crossing diagonals of tests::crossing_and_touching have gone through
\* the closure of break_edges.
C24_Witness ==
    /\ Done("break_edges")
    /\ scall.args = <<<<Pt(0, 0), Pt(1, 1)>>, <<Pt(0, 1), Pt(1, 0)>>>>
    /\ sret.crosses
    /\ ~sret.touches
    /\ sret.called

\* ------------------------------------------------------------------ C25

\* How often the edge e occurs in edges.
Occurs(e, edges) == Cardinality({k \in 1..Len(edges) : edges[k] = e})

\* The edges of the boundaries of the contours of cs from the k-th on.
RECURSIVE LoopEdges(_, _)
LoopEdges(cs, k) == IF k > Len(cs) THEN <<>> ELSE Edges(cs[k]) \o LoopEdges(cs, k + 1)

\* The edges of pool are those of placed, each as often.
SameEdges(pool, placed) ==
    /\ Len(pool) = Len(placed)
    /\ \A k \in 1..Len(pool) : Occurs(pool[k], pool) = Occurs(pool[k], placed)

\* C25: when merge returns, every sub-edge of the pool is in one place and
\* one only, an edge of the boundary of one of the contours the merge has
\* pushed or an entry the merge has added to problems: none is used twice
\* and none is lost, and the pool counts as many sub-edges as the points of
\* the new boundaries and the added problems together.
C25_PoolAccounted ==
    [][(last'.merged /\ pc' # "panicked") =>
          \E pool \in {PoolEdges(contours, last'.i, last'.j)} :
              /\ SameEdges(pool, LoopEdges(contours', Len(contours) - 1)
                                   \o SubSeq(problems', Len(problems) + 1, Len(problems')))
              /\ Len(pool) = BoundaryTotal(contours', Len(contours) - 1)
                                + Len(problems') - Len(problems)]_vars

\* A merge has closed a loop and then failed to close the next.
C25_Witness == last.merged /\ last.failed /\ last.loops >= 1 /\ problems # <<>>

\* ------------------------------------------------------------------ C26

\* A caller of find_intersection has returned.
CallerDone == Done("break_edges") \/ Done("distance") \/ Done("Line::boundary")

\* No assertion of find_intersection is reached from a caller.
NoAssertionReached == CallerDone => (sret.called => ~sret.panicked)

\* C26: find_intersection is called only on two edges of which crosses or
\* touches holds, and so none of its assertions fails, whoever calls: the
\* closure of break_edges, Line::boundary, Edge::distance.  Edge::distance
\* calls it on the edge and a perpendicular of the edge's length through
\* the point, which need not reach the edge.
C26_CalledOnMeeting ==
    CallerDone =>
        /\ sret.called => (sret.crosses \/ sret.touches)
        /\ sret.called => ~sret.panicked

\* ------------------------------------------------------------------ C27

\* The fraction f, of a denominator other than 0, is at least m, at most m.
FracGe(f, m) == IF f[2] > 0 THEN f[1] >= m * f[2] ELSE f[1] <= m * f[2]

FracLe(f, m) == IF f[2] > 0 THEN f[1] <= m * f[2] ELSE f[1] >= m * f[2]

\* The computed point q lies on the segment e: on its line and between its
\* ends.
OnSegment(e, q) ==
    /\ (e[2][1] - e[1][1]) * (q[2][1] - e[1][2] * q[2][2]) * q[1][2]
           = (e[2][2] - e[1][2]) * (q[1][1] - e[1][1] * q[1][2]) * q[2][2]
    /\ FracGe(q[1], Min(e[1][1], e[2][1])) /\ FracLe(q[1], Max(e[1][1], e[2][1]))
    /\ FracGe(q[2], Min(e[1][2], e[2][2])) /\ FracLe(q[2], Max(e[1][2], e[2][2]))

\* The computed point q is the point p of the grid.
IsPoint(q, p) == q[1][1] = p[1] * q[1][2] /\ q[2][1] = p[2] * q[2][2]

\* q is an end of the interval that a and b, on one line, have in common:
\* an end of one of them that lies on both.
SharedEnd(a, b, q) ==
    /\ OnSegment(a, q)
    /\ OnSegment(b, q)
    /\ IsPoint(q, a[1]) \/ IsPoint(q, a[2]) \/ IsPoint(q, b[1]) \/ IsPoint(q, b[2])

\* find_intersection has returned a point to break_edges.
Intersected == Done("break_edges") /\ sret.called /\ ~sret.panicked

\* The part of C27 on edges that are not on one line.
MeetingPointOnBoth ==
    (Intersected /\ ~OnOneLine(Arg(1), Arg(2))) =>
        (OnSegment(Arg(1), sret.point) /\ OnSegment(Arg(2), sret.point))

\* C27: when crosses or touches holds of two edges, the point that
\* find_intersection returns to break_edges lies on both, and for two
\* overlapping edges on one line it is an end of the interval they share.
\* For edges on one line the point is the middle between an end of each,
\* which may lie on one of them only, or in the gap a shorter edge leaves.
C27_PointOnBoth ==
    Intersected =>
        /\ OnSegment(Arg(1), sret.point)
        /\ OnSegment(Arg(2), sret.point)
        /\ OnOneLine(Arg(1), Arg(2)) => SharedEnd(Arg(1), Arg(2), sret.point)

\* ------------------------------------------------------------------ C28

\* The shape s is a constituent of the contour c.
Constituent(s, c) == \E k \in 1..Len(c.area) : c.area[k] = s

\* Every shape of every contour that merge_all was given is a constituent
\* of a contour of the repository.
EveryShapeKept ==
    \A n \in 1..Len(input) : \A k \in 1..Len(input[n].area) :
        \E m \in 1..Len(contours) : Constituent(input[n].area[k], contours[m])

\* C28: when merge_all has returned with no problem recorded, every shape
\* of every input contour is a constituent of a contour of the repository;
\* a repository that was not empty is then not empty.
\* Two loops with the same constituents are merged with each other, every
\* edge of both is dropped as contained, nothing is stitched and nothing
\* is recorded.
C28_NoSilentLoss ==
    (Returned /\ problems = <<>>) =>
        /\ EveryShapeKept
        /\ input # <<>> => contours # <<>>

\* --------------------------------------------------------------- drivers
\* src/src/io/gcode.rs: make_gcode_contours, make_gcode_drilling and
\* make_gcode_boring, each a program of calls of the generator. A step of
\* a driver is one call of the generator, or one head of a loop.

\* A driver is given at most MaxWork contours or holes.
MaxWork == 2

\* A contour has 1..MaxPoints points.
MaxPoints == 2

\* FabContourData.depths has at most MaxPasses entries.
MaxPasses == 2

\* The depths, the depths per turn and the radii.
Depths == {1, 2}

\* The sequences of at most n elements of S.
SeqsUpTo(S, n) == UNION {[1..k -> S] : k \in 0..n}

\* The k-th point of the diagonal, which turns back after MaxCoord.
Diag(k) == <<k % (MaxCoord + 1), k % (MaxCoord + 1)>>

\* The contours: LineStrings of at least one point.
DContours == {[i \in 1..n |-> Diag(first + i - 1)] : first \in Coords, n \in 1..MaxPoints}

\* The holes: Hole { center, radius }.
DHoles == {[center |-> c, radius |-> r] : c \in Targets, r \in Depths}

\* FabContourData { contours, depths }
ContourData ==
    {[items |-> cs, depths |-> ds, depth |-> 0, depth_per_turn |-> 0, bit_radius |-> 0] :
        cs \in SeqsUpTo(DContours, MaxWork), ds \in SeqsUpTo(Depths, MaxPasses)}

\* FabHoleData { holes, depth }, for drilling.
DrillingData ==
    {[items |-> hs, depths |-> <<>>, depth |-> d, depth_per_turn |-> 0, bit_radius |-> 0] :
        hs \in SeqsUpTo(DHoles, MaxWork), d \in Depths}

\* FabHoleData { holes, depth } with depth_per_turn and bit_radius, for
\* boring.
BoringData ==
    {[items |-> hs, depths |-> <<>>, depth |-> d, depth_per_turn |-> t, bit_radius |-> 1] :
        hs \in SeqsUpTo(DHoles, MaxWork), d \in Depths, t \in Depths}

\* (a - now).magnitude_squared()
MagnitudeSquared(a, now) ==
    (a[1] - now[1]) * (a[1] - now[1]) + (a[2] - now[2]) * (a[2] - now[2])

\* Where a driver goes to for a contour or a hole: the first point, the
\* center.
Place(f, item) == IF f = "contours" THEN item[1] ELSE item.center

\* find_next_contour, find_next_hole: the position, among those left, of
\* the nearest to now; the sort is stable, so of the first of the nearest.
FindNextPlace(f, items, left, now) ==
    CHOOSE k \in 1..Len(left) :
        \A l \in 1..Len(left) :
            \/ MagnitudeSquared(Place(f, items[left[k]]), now)
                   < MagnitudeSquared(Place(f, items[left[l]]), now)
            \/ /\ MagnitudeSquared(Place(f, items[left[k]]), now)
                      = MagnitudeSquared(Place(f, items[left[l]]), now)
               /\ k <= l

\* The driver f at its start, with the data it is given: every contour or
\* hole is left to do, and now is the origin.
Started(f, data) ==
    [f |-> f, data |-> data, pc |-> "start",
     left |-> [k \in 1..Len(data.items) |-> k],
     item |-> 0, rest |-> <<>>, points |-> <<>>, now |-> <<0, 0>>,
     taken |-> <<>>, trace |-> <<>>]

\* The driver is at the position pos, and the generator has not panicked.
At(pos) == driver.f # "none" /\ driver.pc = pos /\ gpc = "ready"

\* The driver has called the method name and goes on at the position pos.
Goes(name, pos) == [driver EXCEPT !.pc = pos, !.trace = Append(@, name)]

\* The hole in work.
Hole == driver.data.items[driver.item]

\* offset.x of make_gcode_boring: hole.radius - bit_radius; offset.y is 0.
OffsetX == Hole.radius - driver.data.bit_radius

\* helix of make_gcode_boring: hole.center + offset.
Helix == <<Hole.center[1] + OffsetX, Hole.center[2]>>

\* turns of make_gcode_boring: (data.depth / depth_per_turn) as usize.
Turns == driver.data.depth \div driver.data.depth_per_turn

\* gcode.spindle_start_cwise(), in make_gcode_boring
\* gcode.spindle_start_ccwise()
drive_spindle_start ==
    /\ At("start")
    /\ IF driver.f = "boring" THEN DoSpindleStartCcwise ELSE DoSpindleStartCwise
    /\ driver' = Goes(IF driver.f = "boring" THEN "spindle_start_ccwise"
                      ELSE "spindle_start_cwise", "while")
    /\ UNCHANGED <<vars, svars>>

\* while !contours.is_empty(): the nearest contour or hole is removed from
\* the list and now moves to it; after the last the loop is left.
drive_while ==
    /\ At("while")
    /\ IF driver.left = <<>>
       THEN driver' = [driver EXCEPT !.pc = "stop"]
       ELSE \E k \in {FindNextPlace(driver.f, driver.data.items, driver.left, driver.now)} :
                driver' = [driver EXCEPT
                              !.left = RemoveAt(@, k),
                              !.item = driver.left[k],
                              !.now = Place(driver.f, driver.data.items[driver.left[k]]),
                              !.taken = Append(@, driver.left[k]),
                              !.rest = driver.data.depths,
                              !.pc = IF driver.f = "contours" THEN "for" ELSE "rapid"]
    /\ UNCHANGED <<vars, gvars, svars>>

\* for &depth in &data.depths: the head of the rest is the depth of the
\* pass, and the pass has every point of the contour before it.
drive_for ==
    /\ At("for")
    /\ IF driver.rest = <<>>
       THEN driver' = [driver EXCEPT !.pc = "while"]
       ELSE driver' = [driver EXCEPT !.points = driver.data.items[driver.item],
                                     !.pc = "rapid"]
    /\ UNCHANGED <<vars, gvars, svars>>

\* gcode.rapid(p0.x, p0.y) with p0 = points.next().unwrap();
\* gcode.rapid(hole.center.x, hole.center.y); gcode.rapid(helix.x, helix.y)
drive_rapid ==
    /\ At("rapid")
    /\ CASE driver.f = "contours" ->
                /\ DoRapid(Head(driver.points)[1], Head(driver.points)[2])
                /\ driver' = [Goes("rapid", "engage") EXCEPT !.points = Tail(@)]
         [] driver.f = "drilling" ->
                /\ DoRapid(Hole.center[1], Hole.center[2])
                /\ driver' = Goes("rapid", "engage")
         [] driver.f = "boring" ->
                /\ DoRapid(Helix[1], Helix[2])
                /\ driver' = Goes("rapid", "engage")
    /\ UNCHANGED <<vars, svars>>

\* gcode.engage()
drive_engage ==
    /\ At("engage")
    /\ DoEngage
    /\ driver' = Goes("engage", IF driver.f = "boring" THEN "helix" ELSE "move_z")
    /\ UNCHANGED <<vars, svars>>

\* gcode.move_z(-depth); gcode.move_z(-data.depth)
drive_move_z ==
    /\ At("move_z")
    /\ IF driver.f = "contours"
       THEN /\ DoMoveZ(-Head(driver.rest))
            /\ driver' = Goes("move_z", IF driver.points = <<>> THEN "disengage" ELSE "move_xy")
       ELSE /\ DoMoveZ(-driver.data.depth)
            /\ driver' = Goes("move_z", "disengage")
    /\ UNCHANGED <<vars, svars>>

\* while let Some(p) = points.next() { gcode.move_xy(p.x, p.y) }
drive_move_xy ==
    /\ At("move_xy")
    /\ DoMoveXY(Head(driver.points)[1], Head(driver.points)[2])
    /\ driver' = [Goes("move_xy", IF Tail(driver.points) = <<>> THEN "disengage" ELSE "move_xy")
                     EXCEPT !.points = Tail(@)]
    /\ UNCHANGED <<vars, svars>>

\* gcode.helix_ccwise(helix.x, helix.y, -data.depth, -offset.x, -offset.y, turns)
drive_helix ==
    /\ At("helix")
    /\ DoHelixCcwise(Helix[1], Helix[2], -driver.data.depth, -OffsetX, 0, Turns)
    /\ driver' = Goes("helix_ccwise", "arc")
    /\ UNCHANGED <<vars, svars>>

\* gcode.arc_ccwise(helix.x, helix.y, -offset.x, -offset.y)
drive_arc ==
    /\ At("arc")
    /\ DoArcCcwise(Helix[1], Helix[2], -OffsetX, 0)
    /\ driver' = Goes("arc_ccwise", "disengage")
    /\ UNCHANGED <<vars, svars>>

\* The driver goes on without the call of disengage.
drive_disengageSkipped ==
    /\ At("disengage")
    /\ driver' = [driver EXCEPT !.rest = IF driver.f = "contours" THEN Tail(@) ELSE @,
                                !.pc = IF driver.f = "contours" THEN "for" ELSE "while"]
    /\ UNCHANGED <<vars, gvars, svars>>

\* gcode.disengage(), the end of a pass over a contour, of a hole
drive_disengage ==
    /\ At("disengage")
    /\ DoDisengage
    /\ driver' = [Goes("disengage", IF driver.f = "contours" THEN "for" ELSE "while")
                     EXCEPT !.rest = IF driver.f = "contours" THEN Tail(@) ELSE @]
    /\ UNCHANGED <<vars, svars>>

\* gcode.spindle_stop()
drive_spindle_stop ==
    /\ At("stop")
    /\ DoSpindleStop
    /\ driver' = Goes("spindle_stop", "into_string")
    /\ UNCHANGED <<vars, svars>>

\* gcode.into_string(), the value the driver returns
drive_into_string ==
    /\ At("into_string")
    /\ DoIntoString
    /\ driver' = Goes("into_string", "returned")
    /\ UNCHANGED <<vars, svars>>

\* A driver has made its generator with GCodeGenerator::new.
DInit ==
    /\ \/ \E data \in ContourData : driver = Started("contours", data)
       \/ \E data \in DrillingData : driver = Started("drilling", data)
       \/ \E data \in BoringData : driver = Started("boring", data)
    /\ GCodeGeneratorNew(100, 1000, 5)
    /\ InitWith(<<>>)
    /\ NoCall

DNext ==
    \/ drive_spindle_start
    \/ drive_while
    \/ drive_for
    \/ drive_rapid
    \/ drive_engage
    \/ drive_move_z
    \/ drive_move_xy
    \/ drive_helix
    \/ drive_arc
    \/ drive_disengage
    \/ drive_spindle_stop
    \/ drive_into_string

DSpec == DInit /\ [][DNext]_<<dvars, gvars, vars, svars>>

\* ------------------------------------------------------------------ C29

\* The driver has returned the string.
DriverReturned == driver.f # "none" /\ driver.pc = "returned"

\* The last call of engage or disengage among the first n calls, "none"
\* when there is none.
RECURSIVE LastZ(_, _)
LastZ(trace, n) ==
    IF n = 0 THEN "none"
    ELSE IF trace[n] \in {"engage", "disengage"} THEN trace[n]
    ELSE LastZ(trace, n - 1)

\* No rapid and no spindle stop is called while an engage waits for its
\* disengage, and none waits when the driver returns.
EngagePaired ==
    /\ \A n \in 1..Len(driver.trace) :
           driver.trace[n] \in {"rapid", "spindle_stop"} =>
               LastZ(driver.trace, n - 1) # "engage"
    /\ DriverReturned => LastZ(driver.trace, Len(driver.trace)) # "engage"

\* No contour or hole is taken twice, and when the driver returns each
\* has been taken.
TakenOnce ==
    /\ \A m, n \in 1..Len(driver.taken) : driver.taken[m] = driver.taken[n] => m = n
    /\ DriverReturned =>
           \A k \in 1..Len(driver.data.items) :
               \E n \in 1..Len(driver.taken) : driver.taken[n] = k

\* The number of calls of the method name.
CallsOf(name) == Cardinality({n \in 1..Len(driver.trace) : driver.trace[n] = name})

\* When the driver returns, each contour has had one pass for each depth
\* and each hole one pass.
PassesMade ==
    DriverReturned =>
        /\ CallsOf("engage") = Len(driver.data.items) *
                                   (IF driver.f = "contours" THEN Len(driver.data.depths) ELSE 1)
        /\ CallsOf("disengage") = CallsOf("engage")
        /\ CallsOf("rapid") = CallsOf("engage")

\* The run ends with the spindle stop and M2.
EndsWithM2 ==
    DriverReturned =>
        /\ Len(driver.trace) >= 2
        /\ SubSeq(driver.trace, Len(driver.trace) - 1, Len(driver.trace))
               = <<"spindle_stop", "into_string">>
        /\ SubSeq(actions, Len(actions) - 1, Len(actions)) = <<GLine0("M5"), GLine0("M2")>>
        /\ gpc = "finished"

\* C29: for every list of contours of at least one point with every list
\* of depths, and every list of holes, no assertion of the generator fails
\* in a run of a driver, no rapid and no spindle stop comes between an
\* engage and its disengage, each contour or hole is taken once, and the
\* run ends with the spindle stop and M2.
C29_DriversAllowed ==
    driver.f # "none" =>
        /\ gpc # "panicked"
        /\ EngagePaired
        /\ TakenOnce
        /\ PassesMade
        /\ EndsWithM2

\* make_gcode_contours has returned after two contours of two passes
\* each, with points to trace.
C29_Witness ==
    /\ DriverReturned
    /\ driver.f = "contours"
    /\ Len(driver.taken) = 2
    /\ Len(driver.data.depths) = 2
    /\ CallsOf("move_xy") >= 2

\* ------------------------------------------------------------------- cut
\* src/src/fab.rs: FabOperation::cut builds the depths of the passes.

\* depth and depth_per_pass are 1..MaxCut, in one unit of length.
MaxCut == 8

\* The depths FabOperation::cut gives to FabContourData::new:
\* passes = floor(depth / depth_per_pass), then depth_per_pass * pass for
\* pass in 0..passes, then depth.
CutDepths(depth, depth_per_pass) ==
    [pass \in 1..(depth \div depth_per_pass) |-> depth_per_pass * (pass - 1)] \o <<depth>>

\* The calls of cut: depth, depth_per_pass.
CutCalls ==
    {[f |-> "cut", args |-> <<depth, depth_per_pass>>, done |-> FALSE] :
        depth \in 1..MaxCut, depth_per_pass \in 1..MaxCut}

\* FabOperation::cut
cut ==
    /\ Returns("cut", [depths |-> CutDepths(scall.args[1], scall.args[2])])
    /\ UNCHANGED <<shape, vars, gvars, dvars>>

FInit ==
    /\ shape = NoShape
    /\ driver = NoDriver
    /\ scall \in CutCalls
    /\ sret = "none"
    /\ InitWith(<<>>)
    /\ GCodeGeneratorNew(1, 1, 1)

FNext == cut

FSpec == FInit /\ [][FNext]_<<svars, vars, gvars, dvars>>

\* ------------------------------------------------------------------ C30

\* The depths never decrease and the last is depth.
EndsAtDepth ==
    Done("cut") =>
        /\ \A n \in 1..(Len(sret.depths) - 1) : sret.depths[n] <= sret.depths[n + 1]
        /\ sret.depths[Len(sret.depths)] = Arg(1)

\* The first depth is no deeper than depth_per_pass.
FirstPassWithin == Done("cut") => sret.depths[1] <= Arg(2)

\* C30: for depth > 0 and depth_per_pass > 0 the depths that cut builds
\* never decrease, the last is depth, the first is no deeper than
\* depth_per_pass, and none is more than depth_per_pass deeper than the
\* one before it.
\* The depths before the last are depth_per_pass * 0 .. depth_per_pass *
\* (passes - 1), so the last pass goes from there to depth: depth_per_pass
\* and the remainder of the division.
C30_PassWithinLimit ==
    Done("cut") =>
        /\ \A n \in 1..(Len(sret.depths) - 1) : sret.depths[n] <= sret.depths[n + 1]
        /\ sret.depths[Len(sret.depths)] = Arg(1)
        /\ sret.depths[1] <= Arg(2)
        /\ \A n \in 1..(Len(sret.depths) - 1) :
               sret.depths[n + 1] - sret.depths[n] <= Arg(2)

====
